---- MODULE Spec2Model ----
(***************************************************************************)
(* ARPI policy platform: the master data pipeline (main.py) and the policy *)
(* analyzer (ai_analysis.py).                                              *)
(*                                                                         *)
(* A Python str is modelled as the sequence of its Unicode code points, so *)
(* substring counting, lower-casing, regular-expression matching and the   *)
(* lexicographic order used by the sort are computed as Python computes    *)
(* them.  A real number is modelled as an exact fraction <<num, den>>.     *)
(***************************************************************************)
EXTENDS Integers, Sequences, FiniteSets, TLC

(***************************************************************************)
(* str primitives                                                          *)
(***************************************************************************)

\* str.lower(): ASCII capitals map to small letters; CJK code points have no case.
Lower(s) == [i \in 1..Len(s) |-> IF s[i] \in 65..90 THEN s[i] + 32 ELSE s[i]]

\* whether k occurs in s at position i
MatchAt(s, k, i) ==
    /\ i + Len(k) - 1 <= Len(s)
    /\ \A j \in 1..Len(k) : s[i + j - 1] = k[j]

RECURSIVE CountFrom(_, _, _)
CountFrom(s, k, i) ==
    IF i + Len(k) - 1 > Len(s) THEN 0
    ELSE IF MatchAt(s, k, i) THEN 1 + CountFrom(s, k, i + Len(k))
    ELSE CountFrom(s, k, i + 1)

\* str.count(k): the number of non-overlapping occurrences, scanning from the left
Count(s, k) == CountFrom(s, k, 1)

\* k in s
Contains(s, k) == \E i \in 1..Len(s) : MatchAt(s, k, i)

\* the order of str under <: lexicographic on code points
RECURSIVE StrLess(_, _)
StrLess(a, b) ==
    IF b = <<>> THEN FALSE
    ELSE IF a = <<>> THEN TRUE
    ELSE IF a[1] # b[1] THEN a[1] < b[1]
    ELSE StrLess(Tail(a), Tail(b))

Min(a, b) == IF a <= b THEN a ELSE b

SPACE == <<32>>

(***************************************************************************)
(* main.py: relevance scoring                                              *)
(***************************************************************************)

AI_KEYWORDS ==
    <<
      <<20154, 24037, 26234, 33021>>,    \* 人工智能
      <<65, 73>>,    \* AI
      <<29983, 25104, 24335>>,    \* 生成式
      <<22823, 27169, 22411>>,    \* 大模型
      <<65, 73, 71, 67>>,    \* AIGC
      <<31639, 27861>>,    \* 算法
      <<28145, 24230, 21512, 25104>>,    \* 深度合成
      <<26426, 22120, 23398, 20064>>,    \* 机器学习
      <<28145, 24230, 23398, 20064>>,    \* 深度学习
      <<33258, 28982, 35821, 35328, 22788, 29702>>,    \* 自然语言处理
      <<26234, 33021>>,    \* 智能
      <<31639, 27861, 25512, 33616>>    \* 算法推荐
    >>

\* the list of main.py line 39
AI_TIER3 ==
    <<
      <<20154, 24037, 26234, 33021>>,    \* 人工智能
      <<22823, 27169, 22411>>,    \* 大模型
      <<29983, 25104, 24335>>,    \* 生成式
      <<65, 73, 71, 67>>    \* AIGC
    >>

\* the list of main.py line 41
AI_TIER2 ==
    <<
      <<31639, 27861>>,    \* 算法
      <<26234, 33021>>,    \* 智能
      <<28145, 24230, 21512, 25104>>,    \* 深度合成
      <<26426, 22120, 23398, 20064>>,    \* 机器学习
      <<28145, 24230, 23398, 20064>>    \* 深度学习
    >>

InSeq(x, seq) == \E i \in DOMAIN seq : seq[i] = x

RECURSIVE SumSeq(_)
SumSeq(s) == IF s = <<>> THEN 0 ELSE s[1] + SumSeq(Tail(s))

\* a missing value (NaN / None) in a cell
NaN == <<-1>>

\* the cell of a column that the file does not have
Absent == <<-2>>

IsStr(v) == v # NaN

\* every keyword weighted 1, as if lines 39-42 were not there
KeywordTier_flat(keyword) == 1

\* the weight of one occurrence of an AI keyword (main.py lines 39-44)
KeywordTier(keyword) ==
    IF InSeq(keyword, AI_TIER3) THEN 3
    ELSE IF InSeq(keyword, AI_TIER2) THEN 2
    ELSE 1

calculate_ai_score(row) ==
    IF ~IsStr(row.title) \/ ~IsStr(row.full_text) THEN 0
    ELSE LET full_content == Lower(row.title) \o SPACE \o Lower(row.full_text)
         IN  SumSeq([i \in DOMAIN AI_KEYWORDS |->
                        Count(full_content, Lower(AI_KEYWORDS[i]))
                          * KeywordTier(AI_KEYWORDS[i])])

(***************************************************************************)
(* ai_analysis.py: PolicyAnalyzer                                          *)
(***************************************************************************)

strict_keywords ==
    <<
      [kw |-> <<20005, 31105>>, score |-> 10],    \* 严禁
      [kw |-> <<31105, 27490>>, score |-> 9],    \* 禁止
      [kw |-> <<19981, 24471>>, score |-> 8],    \* 不得
      [kw |-> <<36829, 27861>>, score |-> 10],    \* 违法
      [kw |-> <<22788, 32602>>, score |-> 9],    \* 处罚
      [kw |-> <<20572, 19994>>, score |-> 10],    \* 停业
      [kw |-> <<21514, 38144>>, score |-> 10],    \* 吊销
      [kw |-> <<36131, 20196>>, score |-> 8],    \* 责令
      [kw |-> <<26597, 22788>>, score |-> 9],    \* 查处
      [kw |-> <<25972, 25913>>, score |-> 7],    \* 整改
      [kw |-> <<30417, 31649>>, score |-> 7],    \* 监管
      [kw |-> <<21512, 35268>>, score |-> 7],    \* 合规
      [kw |-> <<23457, 26597>>, score |-> 8],    \* 审查
      [kw |-> <<23457, 25209>>, score |-> 7],    \* 审批
      [kw |-> <<22791, 26696>>, score |-> 6],    \* 备案
      [kw |-> <<35768, 21487>>, score |-> 7],    \* 许可
      [kw |-> <<36164, 36136>>, score |-> 6],    \* 资质
      [kw |-> <<35748, 35777>>, score |-> 6],    \* 认证
      [kw |-> <<26816, 26597>>, score |-> 7],    \* 检查
      [kw |-> <<30563, 26597>>, score |-> 8],    \* 督查
      [kw |-> <<35268, 33539>>, score |-> 5],    \* 规范
      [kw |-> <<31649, 29702>>, score |-> 5],    \* 管理
      [kw |-> <<21046, 24230>>, score |-> 5],    \* 制度
      [kw |-> <<26631, 20934>>, score |-> 5],    \* 标准
      [kw |-> <<35201, 27714>>, score |-> 4],    \* 要求
      [kw |-> <<24212, 24403>>, score |-> 5],    \* 应当
      [kw |-> <<24517, 39035>>, score |-> 6],    \* 必须
      [kw |-> <<20041, 21153>>, score |-> 6],    \* 义务
      [kw |-> <<36131, 20219>>, score |-> 5],    \* 责任
      [kw |-> <<39118, 38505>>, score |-> 6],    \* 风险
      [kw |-> <<25351, 23548>>, score |-> 3],    \* 指导
      [kw |-> <<24314, 35758>>, score |-> 3],    \* 建议
      [kw |-> <<25512, 33616>>, score |-> 2],    \* 推荐
      [kw |-> <<25552, 20513>>, score |-> 2],    \* 提倡
      [kw |-> <<20513, 23548>>, score |-> 2]    \* 倡导
    >>

innovation_keywords ==
    <<
      [kw |-> <<40723, 21169>>, score |-> 1],    \* 鼓励
      [kw |-> <<25903, 25345>>, score |-> 1],    \* 支持
      [kw |-> <<20419, 36827>>, score |-> 1],    \* 促进
      [kw |-> <<25512, 21160>>, score |-> 2],    \* 推动
      [kw |-> <<21152, 24555>>, score |-> 2],    \* 加快
      [kw |-> <<21019, 26032>>, score |-> 1],    \* 创新
      [kw |-> <<31361, 30772>>, score |-> 1],    \* 突破
      [kw |-> <<21457, 23637>>, score |-> 2],    \* 发展
      [kw |-> <<25552, 21319>>, score |-> 2],    \* 提升
      [kw |-> <<20248, 21270>>, score |-> 2],    \* 优化
      [kw |-> <<24212, 29992>>, score |-> 2],    \* 应用
      [kw |-> <<35797, 28857>>, score |-> 3],    \* 试点
      [kw |-> <<31034, 33539>>, score |-> 3],    \* 示范
      [kw |-> <<25512, 24191>>, score |-> 2],    \* 推广
      [kw |-> <<26222, 21450>>, score |-> 2],    \* 普及
      [kw |-> <<25968, 23383, 21270>>, score |-> 2],    \* 数字化
      [kw |-> <<26234, 33021, 21270>>, score |-> 1],    \* 智能化
      [kw |-> <<21319, 32423>>, score |-> 2],    \* 升级
      [kw |-> <<36716, 22411>>, score |-> 2],    \* 转型
      [kw |-> <<36171, 33021>>, score |-> 1]    \* 赋能
    >>

domain_keywords ==
    <<
      [name |-> "privacy_protection",    \* 隐私保护
       keywords |-> <<
          <<38544, 31169>>,    \* 隐私
          <<20010, 20154, 20449, 24687>>,    \* 个人信息
          <<25968, 25454, 20445, 25252>>,    \* 数据保护
          <<20449, 24687, 20445, 25252>>,    \* 信息保护
          <<25935, 24863, 20449, 24687>>    \* 敏感信息
       >>],
      [name |-> "algorithm_transparency",    \* 算法透明度
       keywords |-> <<
          <<31639, 27861>>,    \* 算法
          <<31639, 27861, 36879, 26126>>,    \* 算法透明
          <<21487, 35299, 37322>>,    \* 可解释
          <<40657, 30418>>,    \* 黑盒
          <<31639, 27861, 27495, 35270>>,    \* 算法歧视
          <<31639, 27861, 20844, 24179>>    \* 算法公平
       >>],
      [name |-> "minor_protection",    \* 未成年人保护
       keywords |-> <<
          <<26410, 25104, 24180>>,    \* 未成年
          <<20799, 31461>>,    \* 儿童
          <<38738, 23569, 24180>>,    \* 青少年
          <<23398, 29983>>,    \* 学生
          <<26410, 25104, 24180, 20154, 20445, 25252>>    \* 未成年人保护
       >>],
      [name |-> "generative_ai",    \* 生成式AI
       keywords |-> <<
          <<29983, 25104, 24335>>,    \* 生成式
          <<22823, 27169, 22411>>,    \* 大模型
          <<67, 104, 97, 116, 71, 80, 84>>,    \* ChatGPT
          <<65, 73, 71, 67>>,    \* AIGC
          <<29983, 25104, 24335, 20154, 24037, 26234, 33021>>,    \* 生成式人工智能
          <<28145, 24230, 21512, 25104>>    \* 深度合成
       >>],
      [name |-> "data_security",    \* 数据安全
       keywords |-> <<
          <<25968, 25454, 23433, 20840>>,    \* 数据安全
          <<32593, 32476, 23433, 20840>>,    \* 网络安全
          <<20449, 24687, 23433, 20840>>,    \* 信息安全
          <<25968, 25454, 27844, 38706>>,    \* 数据泄露
          <<32593, 32476, 25915, 20987>>    \* 网络攻击
       >>],
      [name |-> "content_security",    \* 内容安全
       keywords |-> <<
          <<20869, 23481, 23433, 20840>>,    \* 内容安全
          <<26377, 23475, 20449, 24687>>,    \* 有害信息
          <<34394, 20551, 20449, 24687>>,    \* 虚假信息
          <<19981, 33391, 20869, 23481>>,    \* 不良内容
          <<36829, 27861, 20869, 23481>>    \* 违法内容
       >>]
    >>

enforcement_levels ==
    <<
      [name |-> "law",    \* 法律法规
       keywords |-> <<
          <<27861, 24459>>,    \* 法律
          <<27861, 35268>>,    \* 法规
          <<26465, 20363>>,    \* 条例
          <<21009, 27861>>,    \* 刑法
          <<27665, 27861>>,    \* 民法
          <<34892, 25919, 27861>>    \* 行政法
       >>],
      [name |-> "administrative_rule",    \* 行政规章
       keywords |-> <<
          <<35268, 23450>>,    \* 规定
          <<21150, 27861>>,    \* 办法
          <<32454, 21017>>,    \* 细则
          <<35268, 31456>>,    \* 规章
          <<31649, 29702, 21150, 27861>>,    \* 管理办法
          <<23454, 26045, 32454, 21017>>    \* 实施细则
       >>],
      [name |-> "industry_standard",    \* 行业标准
       keywords |-> <<
          <<26631, 20934>>,    \* 标准
          <<35268, 33539>>,    \* 规范
          <<25351, 21335>>,    \* 指南
          <<20934, 21017>>,    \* 准则
          <<25216, 26415, 26631, 20934>>,    \* 技术标准
          <<22269, 23478, 26631, 20934>>    \* 国家标准
       >>],
      [name |-> "guidance_document",    \* 指导性文件
       keywords |-> <<
          <<24847, 35265>>,    \* 意见
          <<36890, 30693>>,    \* 通知
          <<25351, 23548>>,    \* 指导
          <<24314, 35758>>,    \* 建议
          <<20513, 35758>>,    \* 倡议
          <<25351, 21335>>    \* 指南
       >>]
    >>

\* the list of ai_analysis.py line 151
penalty_words ==
    <<
      <<22788, 32602>>,    \* 处罚
      <<32602, 27454>>,    \* 罚款
      <<36131, 20219>>,    \* 责任
      <<36829, 27861>>    \* 违法
    >>

\* the list of ai_analysis.py line 154
urgency_words ==
    <<
      <<32039, 24613>>,    \* 紧急
      <<31435, 21363>>,    \* 立即
      <<23613, 24555>>,    \* 尽快
      <<39532, 19978>>    \* 马上
    >>

\* Twice the weight min(count * 2, 10) of a strictness keyword: weights are kept
\* doubled so that the innovation weight min(count * 1.5, 8) stays an integer.
StrictWeight2_uncapped(count) == count * 4

StrictWeight2(count) == Min(count * 4, 20)

InnovationWeight2(count) == Min(count * 3, 16)

\* text.count(keyword) for every keyword of a table, in table order
KeywordCounts(text, table) == [i \in DOMAIN table |-> Count(text, table[i].kw)]

\* what the loop of lines 80-85 adds to twice weighted_score
StrictScore2(counts) ==
    SumSeq([i \in DOMAIN strict_keywords |->
              IF counts[i] > 0
              THEN strict_keywords[i].score * StrictWeight2(counts[i]) ELSE 0])

\* what the loop of lines 80-85 adds to twice total_weight
StrictTotal2(counts) ==
    SumSeq([i \in DOMAIN strict_keywords |->
              IF counts[i] > 0 THEN StrictWeight2(counts[i]) ELSE 0])

\* the same for the loop of lines 88-93
InnovationScore2(counts) ==
    SumSeq([i \in DOMAIN innovation_keywords |->
              IF counts[i] > 0
              THEN innovation_keywords[i].score * InnovationWeight2(counts[i]) ELSE 0])

InnovationTotal2(counts) ==
    SumSeq([i \in DOMAIN innovation_keywords |->
              IF counts[i] > 0 THEN InnovationWeight2(counts[i]) ELSE 0])

\* fractions <<num, den>> with den > 0
RatLeq(p, q) == p[1] * q[2] <= q[1] * p[2]

RatEq(p, q) == p[1] * q[2] = q[1] * p[2]

RatLess(p, q) == p[1] * q[2] < q[1] * p[2]

\* max(1.0, min(10.0, raw_score))
Clamp(raw_score) ==
    LET upper == IF RatLess(<<10, 1>>, raw_score) THEN <<10, 1>> ELSE raw_score
    IN  IF RatLess(upper, <<1, 1>>) THEN <<1, 1>> ELSE upper

\* calculate_regulatory_score with 0 returned where no keyword matched
calculate_regulatory_score_zero_default(text) ==
    IF text = <<>> THEN <<0, 1>>
    ELSE LET t == Lower(text)
             strict == KeywordCounts(t, strict_keywords)
             innovation == KeywordCounts(t, innovation_keywords)
             weighted_score == StrictScore2(strict) + InnovationScore2(innovation)
             total_weight == StrictTotal2(strict) + InnovationTotal2(innovation)
         IN  IF total_weight = 0 THEN <<0, 1>>
             ELSE Clamp(<<weighted_score, total_weight>>)

\* calculate_regulatory_score with weighted_score not divided by total_weight
calculate_regulatory_score_sum(text) ==
    IF text = <<>> THEN <<5, 1>>
    ELSE LET t == Lower(text)
             strict == KeywordCounts(t, strict_keywords)
             innovation == KeywordCounts(t, innovation_keywords)
             weighted_score == StrictScore2(strict) + InnovationScore2(innovation)
             total_weight == StrictTotal2(strict) + InnovationTotal2(innovation)
         IN  IF total_weight = 0 THEN <<5, 1>>
             ELSE Clamp(<<weighted_score, 2>>)

calculate_regulatory_score(text) ==
    IF text = <<>> THEN <<5, 1>>
    ELSE LET t == Lower(text)
             strict == KeywordCounts(t, strict_keywords)
             innovation == KeywordCounts(t, innovation_keywords)
             weighted_score == StrictScore2(strict) + InnovationScore2(innovation)
             total_weight == StrictTotal2(strict) + InnovationTotal2(innovation)
         IN  IF total_weight = 0 THEN <<5, 1>>
             ELSE Clamp(<<weighted_score, total_weight>>)

\* domain_score of one domain (line 113)
DomainScore(t, d) ==
    SumSeq([i \in DOMAIN d.keywords |-> Count(t, Lower(d.keywords[i]))])

\* the loop of lines 112-115 from the i-th domain on
RECURSIVE DomainsFrom(_, _)
DomainsFrom(t, i) ==
    IF i > Len(domain_keywords) THEN <<>>
    ELSE (IF DomainScore(t, domain_keywords[i]) >= 1
          THEN <<domain_keywords[i].name>> ELSE <<>>)
         \o DomainsFrom(t, i + 1)

identify_domains(text) ==
    IF text = <<>> THEN <<>>
    ELSE DomainsFrom(Lower(text), 1)

\* the keyword-match sum of one enforcement level (line 125)
LevelScore(combined_text, level) ==
    SumSeq([i \in DOMAIN level.keywords |-> Count(combined_text, level.keywords[i])])

\* determine_enforcement_level with the last of the tied levels returned
determine_enforcement_level_last_tie(text, title) ==
    LET combined_text == Lower(title \o SPACE \o text)
        score == [i \in DOMAIN enforcement_levels |->
                    LevelScore(combined_text, enforcement_levels[i])]
        level_scores == {i \in DOMAIN enforcement_levels : score[i] > 0}
        best == CHOOSE i \in level_scores :
                    \A j \in level_scores :
                        score[j] < score[i] \/ (score[j] = score[i] /\ j <= i)
    IN  IF level_scores = {} THEN "guidance_document"
        ELSE enforcement_levels[best].name

determine_enforcement_level(text, title) ==
    LET combined_text == Lower(title \o SPACE \o text)
        score == [i \in DOMAIN enforcement_levels |->
                    LevelScore(combined_text, enforcement_levels[i])]
        level_scores == {i \in DOMAIN enforcement_levels : score[i] > 0}
        \* max() returns the first item among those with the greatest score
        best == CHOOSE i \in level_scores :
                    \A j \in level_scores :
                        score[j] < score[i] \/ (score[j] = score[i] /\ i <= j)
    IN  IF level_scores = {} THEN "guidance_document"
        ELSE enforcement_levels[best].name

\* \d of the regular expression, over the digits the inputs can hold
IsDigit(c) == c \in 48..57

YEAR_CHAR == <<24180>>    \* 年

MONTH_CHAR == <<26376>>    \* 月

\* re.search(r'\d{4}年\d{1,2}月', s)
HasDeadlinePattern(s) ==
    \E i \in 1..Len(s) :
        /\ i + 6 <= Len(s)
        /\ \A j \in 0..3 : IsDigit(s[i + j])
        /\ s[i + 4] = YEAR_CHAR[1]
        /\ IsDigit(s[i + 5])
        /\ \/ s[i + 6] = MONTH_CHAR[1]
           \/ /\ i + 7 <= Len(s)
              /\ IsDigit(s[i + 6])
              /\ s[i + 7] = MONTH_CHAR[1]

\* analyze_policy at wall-clock time clock; policy_data is a row as a dict
analyze_policy(policy_data, clock) ==
    LET title == policy_data.title
        content == policy_data.full_text
        combined_text == title \o SPACE \o content
    IN  [regulatory_score |-> calculate_regulatory_score(combined_text),
         identified_domains |-> identify_domains(combined_text),
         enforcement_level |-> determine_enforcement_level(content, title),
         content_length |-> Len(content),
         analysis_timestamp |-> clock,
         has_penalties |-> \E i \in DOMAIN penalty_words :
                              Contains(Lower(combined_text), penalty_words[i]),
         has_deadlines |-> HasDeadlinePattern(combined_text),
         urgency_indicators |->
             SumSeq([i \in DOMAIN urgency_words |->
                        Count(Lower(combined_text), urgency_words[i])])]

(***************************************************************************)
(* main.py: unify_data                                                     *)
(***************************************************************************)

\* the keys of source_files in declaration order (lines 51-55)
source_files == <<"cac", "miit", "tc260">>

\* Python's None; a DataFrame is [rows |-> <<row, ...>>], a Timestamp [ts |-> n]
None == [none |-> TRUE]

DataFrame(rows) == [rows |-> rows]

\* the missing Timestamp that errors='coerce' yields (line 78)
NaT == -1

HYPHEN == <<45>>

RECURSIVE Number(_, _, _)
\* the value of the n decimal digits of s that end at position last
Number(s, last, n) ==
    IF n = 0 THEN 0 ELSE Number(s, last - 1, n - 1) * 10 + (s[last] - 48)

DaysInMonth(y, m) ==
    IF m \in {4, 6, 9, 11} THEN 30
    ELSE IF m # 2 THEN 31
    ELSE IF (y % 4 = 0 /\ y % 100 # 0) \/ y % 400 = 0 THEN 29
    ELSE 28

IsoShape(s) ==
    /\ Len(s) = 10
    /\ \A i \in {1, 2, 3, 4, 6, 7, 9, 10} : IsDigit(s[i])
    /\ s[5] = HYPHEN[1]
    /\ s[8] = HYPHEN[1]

SLASH == <<47>>

\* year/month/day
SlashShape(s) ==
    /\ Len(s) = 10
    /\ \A i \in {1, 2, 3, 4, 6, 7, 9, 10} : IsDigit(s[i])
    /\ s[5] = SLASH[1]
    /\ s[8] = SLASH[1]

\* year-month
YearMonthShape(s) ==
    /\ Len(s) = 7
    /\ \A i \in {1, 2, 3, 4, 6, 7} : IsDigit(s[i])
    /\ s[5] = HYPHEN[1]

\* The formats of the date texts the source files hold here, of the many
\* that pd.to_datetime recognises when it is given no format= (line 78).
DateFormats == <<"%Y-%m-%d", "%Y/%m/%d", "%Y-%m">>

\* the Timestamp of year y, month m, day d, kept as the number yyyymmdd, which
\* orders as the dates do
Timestamp(y, m, d) ==
    IF m \in 1..12 /\ d \in 1..DaysInMonth(y, m) THEN y * 10000 + m * 100 + d
    ELSE NaT

\* the text s read under exactly the format fmt, NaT when it does not fit
strptime(s, fmt) ==
    IF s = NaN THEN NaT
    ELSE IF fmt = "%Y-%m-%d" /\ IsoShape(s)
    THEN Timestamp(Number(s, 4, 4), Number(s, 7, 2), Number(s, 10, 2))
    ELSE IF fmt = "%Y/%m/%d" /\ SlashShape(s)
    THEN Timestamp(Number(s, 4, 4), Number(s, 7, 2), Number(s, 10, 2))
    ELSE IF fmt = "%Y-%m" /\ YearMonthShape(s)
    THEN Timestamp(Number(s, 4, 4), Number(s, 7, 2), 1)
    ELSE NaT

\* the first format under which s is a date, "" when there is none
guess_datetime_format(s) ==
    LET fits == {k \in DOMAIN DateFormats : strptime(s, DateFormats[k]) # NaT}
    IN  IF fits = {} THEN ""
        ELSE DateFormats[CHOOSE k \in fits : \A j \in fits : k <= j]

\* pd.to_datetime(text, errors='coerce') on one text: a date in any format that
\* is recognised is parsed, anything else becomes NaT
to_datetime(s) == strptime(s, guess_datetime_format(s))

\* How pd.to_datetime reads a column depends on the pandas that is installed:
\* before 2.0 each text is parsed by itself ("each"); from 2.0 on the format
\* is guessed from the first text that is not missing and every text is read
\* under that format, and each text is parsed by itself only when no format
\* can be guessed ("first").
FormatInference == {"each", "first"}

\* pd.to_datetime(column, errors='coerce') (line 78)
to_datetime_column(texts, inference) ==
    LET present == {i \in DOMAIN texts : texts[i] # NaN}
        first == CHOOSE i \in present : \A j \in present : i <= j
        fmt == IF present = {} THEN "" ELSE guess_datetime_format(texts[first])
    IN  IF inference = "each" \/ fmt = ""
        THEN [i \in DOMAIN texts |-> to_datetime(texts[i])]
        ELSE [i \in DOMAIN texts |-> strptime(texts[i], fmt)]

\* Timestamp.strftime('%Y-%m-%d')
strftime(ts) ==
    LET y == ts \div 10000
        m == (ts \div 100) % 100
        d == ts % 100
    IN  <<48 + (y \div 1000), 48 + ((y \div 100) % 10), 48 + ((y \div 10) % 10),
          48 + (y % 10)>>
        \o HYPHEN \o <<48 + (m \div 10), 48 + (m % 10)>>
        \o HYPHEN \o <<48 + (d \div 10), 48 + (d % 10)>>

\* Series.astype(str): a missing value becomes the text 'nan', so the
\* fillna('') that follows finds nothing to fill (line 83)
astype_str(v) == IF v = NaN THEN <<110, 97, 110>> ELSE v

\* pd.read_csv(filename) followed by df['source'] = source (lines 61-62)
read_csv(source, rows) == [i \in DOMAIN rows |-> rows[i] @@ [source |-> source]]

\* the columns a source file may lack
OptionalColumns == {"url", "issuing_department", "full_text"}

RECURSIVE Flatten(_)
Flatten(dfs) == IF dfs = <<>> THEN <<>> ELSE dfs[1] \o Flatten(Tail(dfs))

\* col is no column of the frame: no row of it comes from a file that has it
ColumnAbsent(rows, col) == \A i \in DOMAIN rows : rows[i][col] = Absent

\* pd.concat(all_dfs, ignore_index=True): the rows of the frames one after the
\* other; a column that only some of the frames have is missing (NaN) in the
\* rows of the others
concat(dfs) ==
    LET rows == Flatten(dfs)
    IN  [i \in DOMAIN rows |->
           [c \in DOMAIN rows[i] |->
              IF c \in OptionalColumns /\ rows[i][c] = Absent /\ ~ColumnAbsent(rows, c)
              THEN NaN
              ELSE rows[i][c]]]

\* lines 77-83: the rows with a title and a parseable date, the text columns
\* that the frame has as str
Clean(rows, inference) ==
    LET has_title(r) == r.title # NaN
        with_title == SelectSeq(rows, has_title)
        dates == to_datetime_column([i \in DOMAIN with_title |->
                                        with_title[i].publication_date], inference)
        parsed == [i \in DOMAIN with_title |->
                     [with_title[i] EXCEPT !.publication_date = dates[i]]]
        has_date(r) == r.publication_date # NaT
        dated == SelectSeq(parsed, has_date)
    IN  [i \in DOMAIN dated |->
           [dated[i] EXCEPT !.title = astype_str(@),
                            !.issuing_department =
                                IF @ = Absent THEN @ ELSE astype_str(@),
                            !.full_text = IF @ = Absent THEN @ ELSE astype_str(@)]]

\* unified_df['publication_date'].max() (line 86)
RECURSIVE MaxDate(_)
MaxDate(rows) ==
    IF rows = <<>> THEN NaT
    ELSE LET rest == MaxDate(Tail(rows))
         IN  IF rows[1].publication_date > rest THEN rows[1].publication_date ELSE rest

OPEN_MARK == <<12298>>    \* 《

CLOSE_MARK == <<12299>>    \* 》

\* re.search(r'《([^》]+)》', title): the leftmost opening mark that is followed
\* by at least one character other than the closing mark and then a closing mark
get_core_title(title) ==
    LET opens == {i \in 1..Len(title) :
                     /\ title[i] = OPEN_MARK[1]
                     /\ i + 1 <= Len(title)
                     /\ title[i + 1] # CLOSE_MARK[1]
                     /\ \E j \in (i + 2)..Len(title) : title[j] = CLOSE_MARK[1]}
    IN  IF opens = {} THEN title
        ELSE LET i == CHOOSE a \in opens : \A b \in opens : a <= b
                 closes == {j \in (i + 2)..Len(title) : title[j] = CLOSE_MARK[1]}
                 j == CHOOSE a \in closes : \A b \in closes : a <= b
             IN  SubSeq(title, i + 1, j - 1)

\* lines 96-97
AddDedupColumns(rows) ==
    [i \in DOMAIN rows |->
       rows[i] @@ [core_title |-> get_core_title(rows[i].title),
                   content_length |-> Len(rows[i].full_text)]]

\* the order of line 100 with content_length placed before publication_date
SortsBefore_length_first(a, b) ==
    \/ StrLess(a.core_title, b.core_title)
    \/ /\ a.core_title = b.core_title
       /\ \/ a.content_length > b.content_length
          \/ /\ a.content_length = b.content_length
             /\ a.publication_date > b.publication_date

\* the order of line 100: core_title ascending, publication_date descending,
\* content_length descending
SortsBefore(a, b) ==
    \/ StrLess(a.core_title, b.core_title)
    \/ /\ a.core_title = b.core_title
       /\ \/ a.publication_date > b.publication_date
          \/ /\ a.publication_date = b.publication_date
             /\ a.content_length > b.content_length

\* sorted with r placed at index k
InsertAt(sorted, r, k) ==
    SubSeq(sorted, 1, k - 1) \o <<r>> \o SubSeq(sorted, k, Len(sorted))

\* the least member of a non-empty set of indices, or otherwise
FirstOf(indices, otherwise) ==
    IF indices = {} THEN otherwise
    ELSE CHOOSE a \in indices : \A b \in indices : a <= b

\* sort_values without inplace=True: the frame keeps its order
sort_values_not_in_place(rows) == rows

\* The last row is placed before the first row it sorts before: rows that
\* compare equal keep their input order, as the lexsort behind a multi-column
\* sort_values does.
RECURSIVE sort_values(_)
sort_values(rows) ==
    IF rows = <<>> THEN <<>>
    ELSE LET sorted == sort_values(SubSeq(rows, 1, Len(rows) - 1))
             r == rows[Len(rows)]
             later == {k \in DOMAIN sorted : SortsBefore(r, sorted[k])}
         IN  InsertAt(sorted, r, FirstOf(later, Len(sorted) + 1))

RECURSIVE DropFrom(_, _)
DropFrom(rows, seen) ==
    IF rows = <<>> THEN <<>>
    ELSE IF rows[1].core_title \in seen THEN DropFrom(Tail(rows), seen)
    ELSE <<rows[1]>> \o DropFrom(Tail(rows), seen \cup {rows[1].core_title})

RECURSIVE DropFromByTitle(_, _)
DropFromByTitle(rows, seen) ==
    IF rows = <<>> THEN <<>>
    ELSE IF rows[1].title \in seen THEN DropFromByTitle(Tail(rows), seen)
    ELSE <<rows[1]>> \o DropFromByTitle(Tail(rows), seen \cup {rows[1].title})

\* drop_duplicates(subset=['title'], keep='first')
drop_duplicates_by_title(rows) == DropFromByTitle(rows, {})

Reverse(seq) == [i \in DOMAIN seq |-> seq[Len(seq) + 1 - i]]

\* drop_duplicates(subset=['core_title'], keep='last')
drop_duplicates_keep_last(rows) == Reverse(DropFrom(Reverse(rows), {}))

\* drop_duplicates(subset=['core_title'], keep='first')
drop_duplicates(rows) == DropFrom(rows, {})

\* lines 100-104
Deduplicate(rows) == drop_duplicates(sort_values(rows))

\* line 110
AddAiScore(rows) ==
    [i \in DOMAIN rows |-> rows[i] @@ [ai_score |-> calculate_ai_score(rows[i])]]

\* line 112 with >= in place of >
IsAiRelated_from_four(row) == row.ai_score >= 4

\* line 112
IsAiRelated(row) == row.ai_score > 4

AiFilter(rows) == SelectSeq(rows, IsAiRelated)

MIIT == <<24037, 19994, 21644, 20449, 24687, 21270, 37096>>    \* 工业和信息化部

MIIT_FULL ==    \* 中华人民共和国工业和信息化部
    <<20013, 21326, 20154, 27665, 20849, 21644, 22269>> \o MIIT

CAC_SHORT == <<32593, 20449, 21150>>    \* 网信办

CAC_FULL ==    \* 国家互联网信息办公室
    <<22269, 23478, 20114, 32852, 32593, 20449, 24687, 21150, 20844, 23460>>

SAMR == <<24066, 22330, 30417, 30563, 31649, 29702, 24635, 23616>>    \* 市场监督管理总局

SAMR_FULL == <<22269, 23478>> \o SAMR    \* 国家市场监督管理总局

TC260 ==    \* 全国信息安全标准化技术委员会
    <<20840, 22269, 20449, 24687, 23433, 20840, 26631, 20934, 21270, 25216, 26415,
      22996, 21592, 20250>>

\* standardize_department with the test of line 124 ahead of that of line 122
standardize_department_cac_first(name) ==
    IF Contains(name, CAC_SHORT) \/ Contains(name, CAC_FULL) THEN CAC_FULL
    ELSE IF Contains(name, MIIT) THEN MIIT_FULL
    ELSE IF Contains(name, SAMR) THEN SAMR_FULL
    ELSE IF Contains(name, TC260) THEN TC260
    ELSE name

standardize_department(name) ==
    IF Contains(name, MIIT) THEN MIIT_FULL
    ELSE IF Contains(name, CAC_SHORT) \/ Contains(name, CAC_FULL) THEN CAC_FULL
    ELSE IF Contains(name, SAMR) THEN SAMR_FULL
    ELSE IF Contains(name, TC260) THEN TC260
    ELSE name

\* line 136
AddUnifiedDepartment(rows) ==
    [i \in DOMAIN rows |->
       rows[i] @@ [unified_department |-> standardize_department(rows[i].issuing_department)]]

(***************************************************************************)
(* main.py: analyze_data                                                   *)
(***************************************************************************)

\* The columns analyze_policy adds to a row (lines 147-148); its own
\* content_length becomes a second column of that name in the table.
Annotate(row, clock) ==
    LET a == analyze_policy(row, clock)
    IN  row @@ [regulatory_score |-> a.regulatory_score,
                identified_domains |-> a.identified_domains,
                enforcement_level |-> a.enforcement_level,
                content_length_2 |-> a.content_length,
                analysis_timestamp |-> a.analysis_timestamp,
                has_penalties |-> a.has_penalties,
                has_deadlines |-> a.has_deadlines,
                urgency_indicators |-> a.urgency_indicators]

NewerFirst(a, b) == a.publication_date > b.publication_date

\* sort_values(by='publication_date', ascending=False) (line 152); rows of one
\* date keep their order, as numpy's sort of a short array leaves them
RECURSIVE SortByDate(_)
SortByDate(rows) ==
    IF rows = <<>> THEN <<>>
    ELSE LET sorted == SortByDate(SubSeq(rows, 1, Len(rows) - 1))
             r == rows[Len(rows)]
             later == {k \in DOMAIN sorted : NewerFirst(r, sorted[k])}
         IN  InsertAt(sorted, r, FirstOf(later, Len(sorted) + 1))

\* lines 147-152
AnalyzeRows(rows, clock) ==
    SortByDate([i \in DOMAIN rows |-> Annotate(rows[i], clock)])

(***************************************************************************)
(* ai_analysis.py: PolicyTrendAnalyzer.generate_risk_alerts                *)
(* alerting.py: AlertingConfig, PolicyAlerter.check_high_risk_policies     *)
(***************************************************************************)

\* the options of default_config that the alert check and the scheduler read
\* (lines 30-53)
default_config ==
    [alert_threshold |-> <<8, 1>>,
     email |-> [enabled |-> FALSE, recipients |-> <<>>],
     slack |-> [enabled |-> FALSE, webhook_url |-> ""],
     alert_frequency |-> "daily",
     domains_to_monitor |->
         <<"privacy_protection", "algorithm_transparency", "minor_protection",
           "generative_ai", "data_security", "content_security">>,
     departments_to_monitor |->
         << <<22269, 23478, 32593, 20449, 21150>>,    \* 国家网信办
            <<24037, 20449, 37096>>,    \* 工信部
            TC260 >>]

\* analysis['regulatory_score'] >= threshold with > in place of >=
MeetsThreshold_strict(score, threshold) == RatLess(threshold, score)

\* analysis['regulatory_score'] >= threshold with <= in place of >=
MeetsThreshold_below(score, threshold) == RatLeq(score, threshold)

\* analysis['regulatory_score'] >= threshold (line 259)
MeetsThreshold(score, threshold) == RatLeq(threshold, score)

\* lines 272-279 with elif in place of the second, third and fourth if
RiskFactors_first_only(analysis) ==
    IF analysis.has_penalties THEN <<"penalty_clause">>
    ELSE IF analysis.has_deadlines THEN <<"deadline">>
    ELSE IF analysis.urgency_indicators > 0 THEN <<"urgency">>
    ELSE IF analysis.enforcement_level \in {"law", "administrative_rule"}
    THEN <<"high_enforcement">>
    ELSE <<>>

\* lines 272-279
RiskFactors(analysis) ==
    (IF analysis.has_penalties THEN <<"penalty_clause">> ELSE <<>>)
    \o (IF analysis.has_deadlines THEN <<"deadline">> ELSE <<>>)
    \o (IF analysis.urgency_indicators > 0 THEN <<"urgency">> ELSE <<>>)
    \o (IF analysis.enforcement_level \in {"law", "administrative_rule"}
        THEN <<"high_enforcement">> ELSE <<>>)

\* the alert of lines 260-279
Alert(policy, analysis, clock) ==
    [title |-> policy.title,
     url |-> policy.url,
     regulatory_score |-> analysis.regulatory_score,
     department |-> policy.issuing_department,
     publication_date |-> policy.publication_date,
     risk_factors |-> RiskFactors(analysis),
     affected_domains |-> analysis.identified_domains,
     alert_timestamp |-> clock]

\* what one turn of the loop appends to alerts (lines 259-281)
AlertIfHigh(policy, analysis, threshold, clock) ==
    IF MeetsThreshold(analysis.regulatory_score, threshold)
    THEN <<Alert(policy, analysis, clock)>>
    ELSE <<>>

\* the loop of lines 256-281; each policy is analysed once (line 257)
RECURSIVE AlertsOf(_, _, _)
AlertsOf(policy_list, threshold, clock) ==
    IF policy_list = <<>> THEN <<>>
    ELSE LET policy == policy_list[1]
             appended == {AlertIfHigh(policy, analysis, threshold, clock) :
                             analysis \in {analyze_policy(policy, clock)}}
         IN  (CHOOSE a \in appended : TRUE)
             \o AlertsOf(Tail(policy_list), threshold, clock)

HigherFirst(a, b) == RatLess(b.regulatory_score, a.regulatory_score)

\* alerts.sort(key=..., reverse=False): the lowest score first
RECURSIVE SortAlerts_ascending(_)
SortAlerts_ascending(alert_list) ==
    IF alert_list = <<>> THEN <<>>
    ELSE LET sorted == SortAlerts_ascending(SubSeq(alert_list, 1, Len(alert_list) - 1))
             r == alert_list[Len(alert_list)]
             later == {k \in DOMAIN sorted : HigherFirst(sorted[k], r)}
         IN  InsertAt(sorted, r, FirstOf(later, Len(sorted) + 1))

\* alerts.sort(key=lambda x: x['regulatory_score'], reverse=True) (line 284):
\* list.sort is stable, also under reverse=True
RECURSIVE SortAlerts(_)
SortAlerts(alert_list) ==
    IF alert_list = <<>> THEN <<>>
    ELSE LET sorted == SortAlerts(SubSeq(alert_list, 1, Len(alert_list) - 1))
             r == alert_list[Len(alert_list)]
             later == {k \in DOMAIN sorted : HigherFirst(r, sorted[k])}
         IN  InsertAt(sorted, r, FirstOf(later, Len(sorted) + 1))

generate_risk_alerts(policy_list, threshold, clock) ==
    SortAlerts(AlertsOf(policy_list, threshold, clock))

\* line 104
DepartmentMonitored(alert, monitored_departments) ==
    monitored_departments = <<>> \/ InSeq(alert.department, monitored_departments)

\* lines 108-111 without the test of line 110
DomainMonitored_unrestricted(alert, monitored_domains) == TRUE

\* lines 108-111
DomainMonitored(alert, monitored_domains) ==
    \/ monitored_domains = <<>>
    \/ \E i \in DOMAIN alert.affected_domains :
          InSeq(alert.affected_domains[i], monitored_domains)

check_high_risk_policies(policy_list, options, clock) ==
    LET high_risk_policies ==
            generate_risk_alerts(policy_list, options.alert_threshold, clock)
        kept(alert) ==
            /\ DepartmentMonitored(alert, options.departments_to_monitor)
            /\ DomainMonitored(alert, options.domains_to_monitor)
    IN  SelectSeq(high_risk_policies, kept)

(***************************************************************************)
(* The state of one run of main.py and of the files it reads and writes    *)
(***************************************************************************)

VARIABLES
    files,              \* source -> what the scraper left in <source>_all_policies.csv
    pc,                 \* the position of main()
    next_source,        \* the index of the loop of lines 57-67
    all_dfs,            \* the frames loaded so far
    canonical_df,       \* unified_df as it stands at line 97, before the sort
    unified_df,         \* unified_df after line 97
    ai_filtered_df,     \* ai_filtered_df of unify_data
    filtered_df,        \* filtered_df of main()
    overall_max_date,   \* overall_max_date of unify_data and main()
    analyzed_df,        \* what analyze_data holds and returns
    csv_file,           \* all_policies_analyzed.csv
    metadata_file,      \* metadata.json
    log,                \* the messages of this run that tell its outcome
    now,                \* the wall clock read by datetime.now()
    run,                \* how many times main() has been started
    first_csv,          \* all_policies_analyzed.csv as the first run left it
    policy_in,          \* the argument of a direct call of the analyzer
    result_out,         \* what that call returned
    policies,           \* the records handed to check_high_risk_policies
    config,             \* AlertingConfig.config, the options of the alert run
    alerts,             \* what check_high_risk_policies returned last
    previous_check,     \* the threshold and the alerts of the check before it
    last_check_file,    \* last_alert_check.json of the AlertScheduler
    output_dir,         \* how many files alerts_output holds
    check_result,       \* what the last alert run did and returned
    last_executed       \* when the last executed alert check ran, and whether it recorded that

vars == <<files, pc, next_source, all_dfs, canonical_df, unified_df, ai_filtered_df,
          filtered_df, overall_max_date, analyzed_df, csv_file, metadata_file, log,
          now, run, first_csv, policy_in, result_out, policies, config, alerts,
          previous_check, last_check_file, output_dir, check_result,
          last_executed>>

alert_vars == <<policies, config, alerts, previous_check>>

sched_vars == <<last_check_file, output_dir, check_result, last_executed>>

pipeline_vars == <<pc, next_source, all_dfs, canonical_df, unified_df, ai_filtered_df,
                   filtered_df, overall_max_date, analyzed_df, csv_file, metadata_file,
                   log>>

\* the most rows the source files hold together
MaxRows == 2

\* the most times main() is started
MaxRuns == 2

\* the latest reading of the wall clock
MaxClock == 2

\* the most phrases a text handed to the analyzer is made of
MaxPhrases == 3

Row(title, url, publication_date, issuing_department, full_text) ==
    [title |-> title, url |-> url, publication_date |-> publication_date,
     issuing_department |-> issuing_department, full_text |-> full_text]

TITLE_MARKED == <<12298, 31034, 20363, 21150, 27861, 12299>>    \* 《示例办法》

TITLE_PLAIN == <<31034, 20363, 21150, 27861>>    \* 示例办法

TITLE_OTHER == <<26576>>    \* 某

DATE_JAN == <<50, 48, 50, 51, 45, 48, 49, 45, 48, 49>>    \* 2023-01-01

DATE_JUN == <<50, 48, 50, 51, 45, 48, 54, 45, 48, 49>>    \* 2023-06-01

DATE_NONE == <<24453, 23450>>    \* 待定

DEPT_CAC == <<22269, 23478>> \o CAC_SHORT    \* 国家网信办

DEPT_MIIT == <<24037, 20449, 37096>>    \* 工信部

TEXT_AI == <<20154, 24037, 26234, 33021>>    \* 人工智能

TEXT_AI_BAN == TEXT_AI \o <<31105, 27490>>    \* 人工智能禁止

TEXT_ALGO == <<31639, 27861, 31639, 27861>>    \* 算法算法

Url(n) == <<117, 48 + n>>    \* u1, u2, ...

\* The rows a source file may hold.  Rows 1-3 share the core title 示例办法:
\* row 1 is older and longer, rows 2 and 3 are newer and of one length and
\* differ in title, url, department and text; row 3 scores 4 for relevance
\* and rows 1, 2 and 4 score 5.  Rows 4 and 6 share the title 某 and the date
\* and differ in length; row 6 holds no text.  Row 5 has no date.
RowPool ==
    { Row(TITLE_MARKED, Url(1), DATE_JAN, DEPT_CAC, TEXT_AI_BAN),
      Row(TITLE_PLAIN, Url(2), DATE_JUN, DEPT_MIIT, TEXT_AI),
      Row(TITLE_MARKED, Url(3), DATE_JUN, DEPT_CAC, TEXT_ALGO),
      Row(TITLE_OTHER, Url(4), DATE_JAN, DEPT_MIIT, TEXT_AI),
      Row(TITLE_OTHER, Url(5), DATE_NONE, DEPT_CAC, TEXT_AI),
      Row(TITLE_OTHER, Url(6), DATE_JAN, DEPT_CAC, <<>>) }

SeqsUpTo(S, n) == UNION {[1..k -> S] : k \in 0..n}

Sources == {source_files[i] : i \in DOMAIN source_files}

\* A file is absent ("missing"), is one read_csv cannot read ("unreadable"), or
\* holds rows ("ok"); a file without rows may be any of the three.
FileStatus == {"missing", "unreadable", "ok"}

\* rows cut into the three files at a and b
FilesOf(rows, a, b, status) ==
    LET part == [s \in Sources |->
                   IF s = source_files[1] THEN SubSeq(rows, 1, a)
                   ELSE IF s = source_files[2] THEN SubSeq(rows, a + 1, b)
                   ELSE SubSeq(rows, b + 1, Len(rows))]
    IN  [s \in Sources |->
           [status |-> IF part[s] # <<>> THEN "ok" ELSE status[s], rows |-> part[s]]]

\* main() about to start, nothing written yet
Idle ==
    /\ pc = "load"
    /\ next_source = 1
    /\ all_dfs = <<>>
    /\ canonical_df = None
    /\ unified_df = None
    /\ ai_filtered_df = None
    /\ filtered_df = None
    /\ overall_max_date = None
    /\ analyzed_df = None
    /\ csv_file = None
    /\ metadata_file = None
    /\ log = <<>>
    /\ run = 1
    /\ first_csv = None

\* the scheduler has never run and alerts_output is empty
NoScheduledRun ==
    /\ last_check_file = None
    /\ output_dir = 0
    /\ check_result = None
    /\ last_executed = None

\* no alert check has been asked for
NoAlertRun ==
    /\ policies = <<>>
    /\ config = default_config
    /\ alerts = None
    /\ previous_check = None
    /\ NoScheduledRun

\* every way to leave at most MaxRows rows of the pool in the three files
InitFiles(pool) ==
    \E rows \in SeqsUpTo(pool, MaxRows) :
        \E a \in 0..Len(rows) :
            \E b \in a..Len(rows) :
                \E status \in [Sources -> FileStatus] :
                    files = FilesOf(rows, a, b, status)

Init ==
    /\ InitFiles(RowPool)
    /\ Idle
    /\ now = 0
    /\ policy_in = None
    /\ result_out = None
    /\ NoAlertRun

(***************************************************************************)
(* unify_data, step by step                                                *)
(***************************************************************************)

\* one turn of the loop of lines 57-67
Load ==
    /\ pc = "load"
    /\ LET source == source_files[next_source]
           f == files[source]
       IN  all_dfs' = IF f.status = "ok"
                      THEN Append(all_dfs, read_csv(source, f.rows))
                      ELSE all_dfs
    /\ next_source' = next_source + 1
    /\ pc' = IF next_source = Len(source_files) THEN "unify" ELSE "load"
    /\ UNCHANGED <<files, canonical_df, unified_df, ai_filtered_df, filtered_df,
                   overall_max_date, analyzed_df, csv_file, metadata_file, log, now,
                   run, first_csv, policy_in, result_out,
                   alert_vars,
                   sched_vars>>

\* lines 69-71: return None, None
HaltNoFiles ==
    /\ pc = "unify"
    /\ all_dfs = <<>>
    /\ filtered_df' = None
    /\ overall_max_date' = None
    /\ log' = Append(log, "halt_no_files")
    /\ pc' = "analyze"
    /\ UNCHANGED <<files, next_source, all_dfs, canonical_df, unified_df,
                   ai_filtered_df, analyzed_df, csv_file, metadata_file, now, run,
                   first_csv, policy_in, result_out,
                   alert_vars,
                   sched_vars>>

\* lines 73-97
Canonicalize ==
    /\ pc = "unify"
    /\ all_dfs # <<>>
    /\ \E inference \in FormatInference :
          LET cleaned == Clean(concat(all_dfs), inference)
          IN  /\ cleaned # <<>>
              /\ ~ColumnAbsent(cleaned, "full_text")
              /\ overall_max_date' = [ts |-> MaxDate(cleaned)]
              /\ canonical_df' = DataFrame(AddDedupColumns(cleaned))
              /\ unified_df' = canonical_df'
    /\ pc' = "dedup"
    /\ UNCHANGED <<files, next_source, all_dfs, ai_filtered_df, filtered_df,
                   analyzed_df, csv_file, metadata_file, log, now, run, first_csv,
                   policy_in, result_out,
                   alert_vars,
                   sched_vars>>

\* lines 73-87 when no row is left: max() of no dates is NaT, and NaT.strftime
\* raises ValueError, which nothing catches
CanonicalizeRaises ==
    /\ pc = "unify"
    /\ all_dfs # <<>>
    /\ \E inference \in FormatInference : Clean(concat(all_dfs), inference) = <<>>
    /\ unified_df' = DataFrame(<<>>)
    /\ log' = Append(log, "exception")
    /\ pc' = "raised"
    /\ UNCHANGED <<files, next_source, all_dfs, canonical_df, ai_filtered_df,
                   filtered_df, overall_max_date, analyzed_df, csv_file,
                   metadata_file, now, run, first_csv, policy_in, result_out,
                   alert_vars,
                   sched_vars>>

\* lines 100-104
Dedup ==
    /\ pc = "dedup"
    /\ unified_df' = DataFrame(Deduplicate(unified_df.rows))
    /\ pc' = "filter"
    /\ UNCHANGED <<files, next_source, all_dfs, canonical_df, ai_filtered_df,
                   filtered_df, overall_max_date, analyzed_df, csv_file,
                   metadata_file, log, now, run, first_csv, policy_in, result_out,
                   alert_vars,
                   sched_vars>>

\* lines 110-112 with the filter applied to every record of a group and the
\* representative chosen among those that pass
Filter_whole_group ==
    /\ pc = "filter"
    /\ unified_df' = DataFrame(AddAiScore(unified_df.rows))
    /\ ai_filtered_df' =
          DataFrame(Deduplicate(AiFilter(AddAiScore(canonical_df.rows))))
    /\ pc' = "filtered"
    /\ UNCHANGED <<files, next_source, all_dfs, canonical_df, filtered_df,
                   overall_max_date, analyzed_df, csv_file, metadata_file, log, now,
                   run, first_csv, policy_in, result_out,
                   alert_vars,
                   sched_vars>>

\* lines 110-112
Filter ==
    /\ pc = "filter"
    /\ unified_df' = DataFrame(AddAiScore(unified_df.rows))
    /\ ai_filtered_df' = DataFrame(AiFilter(unified_df'.rows))
    /\ pc' = "filtered"
    /\ UNCHANGED <<files, next_source, all_dfs, canonical_df, filtered_df,
                   overall_max_date, analyzed_df, csv_file, metadata_file, log, now,
                   run, first_csv, policy_in, result_out,
                   alert_vars,
                   sched_vars>>

\* unify_data without lines 115-117: the empty frame is passed on
HaltNoAi_continues ==
    /\ pc = "filtered"
    /\ ai_filtered_df.rows = <<>>
    /\ filtered_df' = ai_filtered_df
    /\ pc' = "analyze"
    /\ UNCHANGED <<files, next_source, all_dfs, canonical_df, unified_df,
                   ai_filtered_df, overall_max_date, analyzed_df, csv_file,
                   metadata_file, log, now, run, first_csv, policy_in, result_out,
                   alert_vars,
                   sched_vars>>

\* lines 115-117: return None, None
HaltNoAi ==
    /\ pc = "filtered"
    /\ ai_filtered_df.rows = <<>>
    /\ filtered_df' = None
    /\ overall_max_date' = None
    /\ log' = Append(log, "halt_no_ai")
    /\ pc' = "analyze"
    /\ UNCHANGED <<files, next_source, all_dfs, canonical_df, unified_df,
                   ai_filtered_df, analyzed_df, csv_file, metadata_file, now, run,
                   first_csv, policy_in, result_out,
                   alert_vars,
                   sched_vars>>

\* lines 120-139
Standardize ==
    /\ pc = "filtered"
    /\ ai_filtered_df.rows # <<>>
    /\ ~ColumnAbsent(ai_filtered_df.rows, "issuing_department")
    /\ ai_filtered_df' = DataFrame(AddUnifiedDepartment(ai_filtered_df.rows))
    /\ filtered_df' = ai_filtered_df'
    /\ pc' = "analyze"
    /\ UNCHANGED <<files, next_source, all_dfs, canonical_df, unified_df,
                   overall_max_date, analyzed_df, csv_file, metadata_file, log, now,
                   run, first_csv, policy_in, result_out,
                   alert_vars,
                   sched_vars>>

(***************************************************************************)
(* analyze_data and the rest of main                                       *)
(***************************************************************************)

\* lines 143-144
AnalyzeNone ==
    /\ pc = "analyze"
    /\ filtered_df = None
    /\ analyzed_df' = None
    /\ pc' = "report"
    /\ UNCHANGED <<files, next_source, all_dfs, canonical_df, unified_df,
                   ai_filtered_df, filtered_df, overall_max_date, csv_file,
                   metadata_file, log, now, run, first_csv, policy_in, result_out,
                   alert_vars,
                   sched_vars>>

\* lines 145-153
Analyze ==
    /\ pc = "analyze"
    /\ filtered_df # None
    /\ analyzed_df' = DataFrame(AnalyzeRows(filtered_df.rows, now))
    /\ pc' = "save"
    /\ UNCHANGED <<files, next_source, all_dfs, canonical_df, unified_df,
                   ai_filtered_df, filtered_df, overall_max_date, csv_file,
                   metadata_file, log, now, run, first_csv, policy_in, result_out,
                   alert_vars,
                   sched_vars>>

\* lines 155-157 and 162: to_csv succeeds
SaveCsv ==
    /\ pc = "save"
    /\ csv_file' = analyzed_df
    /\ log' = Append(log, "saved")
    /\ pc' = "report"
    /\ UNCHANGED <<files, next_source, all_dfs, canonical_df, unified_df,
                   ai_filtered_df, filtered_df, overall_max_date, analyzed_df,
                   metadata_file, now, run, first_csv, policy_in, result_out,
                   alert_vars,
                   sched_vars>>

\* lines 158-160: to_csv raises, analyze_data returns None
SaveCsvFails ==
    /\ pc = "save"
    /\ analyzed_df' = None
    /\ log' = Append(log, "save_error")
    /\ pc' = "report"
    /\ UNCHANGED <<files, next_source, all_dfs, canonical_df, unified_df,
                   ai_filtered_df, filtered_df, overall_max_date, csv_file,
                   metadata_file, now, run, first_csv, policy_in, result_out,
                   alert_vars,
                   sched_vars>>

\* lines 174-185 with the latest date of the analyzed table written in place of
\* overall_max_date
SaveMetadata_filtered_max ==
    /\ pc = "report"
    /\ analyzed_df # None
    /\ metadata_file' = [overall_max_date |-> strftime(MaxDate(analyzed_df.rows))]
    /\ log' = log \o <<"metadata_saved", "finished">>
    /\ pc' = "done"
    /\ UNCHANGED <<files, next_source, all_dfs, canonical_df, unified_df,
                   ai_filtered_df, filtered_df, overall_max_date, analyzed_df,
                   csv_file, now, run, first_csv, policy_in, result_out,
                   alert_vars,
                   sched_vars>>

\* lines 174-185: json.dump succeeds
SaveMetadata ==
    /\ pc = "report"
    /\ analyzed_df # None
    /\ metadata_file' = [overall_max_date |-> strftime(overall_max_date.ts)]
    /\ log' = log \o <<"metadata_saved", "finished">>
    /\ pc' = "done"
    /\ UNCHANGED <<files, next_source, all_dfs, canonical_df, unified_df,
                   ai_filtered_df, filtered_df, overall_max_date, analyzed_df,
                   csv_file, now, run, first_csv, policy_in, result_out,
                   alert_vars,
                   sched_vars>>

\* lines 174-185: open or json.dump raises, the handler of line 181 logs it
SaveMetadataFails ==
    /\ pc = "report"
    /\ analyzed_df # None
    /\ log' = log \o <<"metadata_error", "finished">>
    /\ pc' = "done"
    /\ UNCHANGED <<files, next_source, all_dfs, canonical_df, unified_df,
                   ai_filtered_df, filtered_df, overall_max_date, analyzed_df,
                   csv_file, metadata_file, now, run, first_csv, policy_in,
                   result_out,
                   alert_vars,
                   sched_vars>>

\* lines 186-187
ReportNoData ==
    /\ pc = "report"
    /\ analyzed_df = None
    /\ log' = Append(log, "no_data")
    /\ pc' = "done"
    /\ UNCHANGED <<files, next_source, all_dfs, canonical_df, unified_df,
                   ai_filtered_df, filtered_df, overall_max_date, analyzed_df,
                   csv_file, metadata_file, now, run, first_csv, policy_in,
                   result_out,
                   alert_vars,
                   sched_vars>>

Next ==
    \/ Load
    \/ HaltNoFiles
    \/ Canonicalize
    \/ CanonicalizeRaises
    \/ Dedup
    \/ Filter
    \/ HaltNoAi
    \/ Standardize
    \/ AnalyzeNone
    \/ Analyze
    \/ SaveCsv
    \/ SaveCsvFails
    \/ SaveMetadata
    \/ SaveMetadataFails
    \/ ReportNoData

Spec == Init /\ [][Next]_vars

(***************************************************************************)
(* main() started again on the same source files, while time passes        *)
(***************************************************************************)

\* the rows of the source files of a repeated run: one row that the relevance
\* filter drops and one that it keeps
RerunPool ==
    { Row(TITLE_MARKED, Url(3), DATE_JUN, DEPT_CAC, TEXT_ALGO),
      Row(TITLE_OTHER, Url(4), DATE_JAN, DEPT_MIIT, TEXT_AI) }

InitRerun ==
    /\ InitFiles(RerunPool)
    /\ Idle
    /\ now = 0
    /\ policy_in = None
    /\ result_out = None
    /\ NoAlertRun

\* the wall clock moves on
Tick ==
    /\ now < MaxClock
    /\ now' = now + 1
    /\ UNCHANGED <<files, pipeline_vars, run, first_csv, policy_in, result_out,
                   alert_vars,
                   sched_vars>>

\* python3 main.py once more: the source files and the files written stay,
\* every variable of the process starts afresh
Rerun ==
    /\ pc \in {"done", "raised"}
    /\ run < MaxRuns
    /\ run' = run + 1
    /\ first_csv' = IF run = 1 THEN csv_file ELSE first_csv
    /\ pc' = "load"
    /\ next_source' = 1
    /\ all_dfs' = <<>>
    /\ canonical_df' = None
    /\ unified_df' = None
    /\ ai_filtered_df' = None
    /\ filtered_df' = None
    /\ overall_max_date' = None
    /\ analyzed_df' = None
    /\ log' = <<>>
    /\ UNCHANGED <<files, csv_file, metadata_file, now, policy_in, result_out,
                   alert_vars,
                   sched_vars>>

NextRerun ==
    \/ Next
    \/ Tick
    \/ Rerun

SpecRerun == InitRerun /\ [][NextRerun]_vars

(***************************************************************************)
(* The analyzer called on one policy                                       *)
(***************************************************************************)

\* the phrases a text is made of: 禁止, 严禁, 鼓励, 智能化, 人工智能, 某
Phrases ==
    { <<31105, 27490>>, <<20005, 31105>>, <<40723, 21169>>, <<26234, 33021, 21270>>,
      TEXT_AI, TITLE_OTHER }

RECURSIVE Join(_)
Join(phrases) == IF phrases = <<>> THEN <<>> ELSE phrases[1] \o Join(Tail(phrases))

Texts == {Join(phrases) : phrases \in SeqsUpTo(Phrases, MaxPhrases)}

\* the titles of a policy handed to the analyzer: none, 某, 《示例办法》, 严禁
Titles == {<<>>, TITLE_OTHER, TITLE_MARKED, <<20005, 31105>>}

InitAnalyzer ==
    /\ files = [s \in Sources |-> [status |-> "missing", rows |-> <<>>]]
    /\ Idle
    /\ now = 0
    /\ policy_in \in [title : Titles, full_text : Texts]
    /\ result_out = None
    /\ NoAlertRun

\* analyzer.calculate_regulatory_score(text) on the policy's text
CallCalculateRegulatoryScore ==
    /\ result_out = None
    /\ result_out' = [call |-> "calculate_regulatory_score",
                      score |-> calculate_regulatory_score(policy_in.full_text)]
    /\ UNCHANGED <<files, pipeline_vars, now, run, first_csv, policy_in,
                   alert_vars,
                   sched_vars>>

\* analyzer.analyze_policy(policy)
CallAnalyzePolicy ==
    /\ result_out = None
    /\ result_out' = [call |-> "analyze_policy",
                      analysis |-> analyze_policy(policy_in, now)]
    /\ UNCHANGED <<files, pipeline_vars, now, run, first_csv, policy_in,
                   alert_vars,
                   sched_vars>>

NextAnalyzer ==
    \/ CallCalculateRegulatoryScore
    \/ CallAnalyzePolicy

SpecAnalyzer == InitAnalyzer /\ [][NextAnalyzer]_vars

(***************************************************************************)
(* main() over source files with untidy rows and with missing columns      *)
(***************************************************************************)

DATE_SLASH == <<50, 48, 50, 51, 47, 48, 54, 47, 48, 49>>    \* 2023/06/01

DATE_YEAR_MONTH == <<50, 48, 50, 51, 45, 48, 54>>    \* 2023-06

\* The rows of untidy source files.  Row 1 is complete.  Row 2 has a date with
\* slashes and neither a department nor a text, and is relevant by its title.
\* Row 3 has a date of year and month only and scores 4.  Row 4 has no
\* title.  Rows 5, 6 and 7 come from files without the column full_text,
\* issuing_department and url.
RawPool ==
    { Row(TITLE_OTHER, Url(1), DATE_JAN, DEPT_CAC, TEXT_AI),
      Row(TEXT_AI, Url(2), DATE_SLASH, NaN, NaN),
      Row(TITLE_PLAIN, Url(3), DATE_YEAR_MONTH, DEPT_MIIT, TEXT_ALGO),
      Row(NaN, Url(4), DATE_JAN, DEPT_CAC, TEXT_AI),
      Row(TEXT_AI, Url(5), DATE_JAN, DEPT_CAC, Absent),
      Row(TITLE_OTHER, Url(6), DATE_JUN, Absent, TEXT_AI),
      Row(TITLE_OTHER, Absent, DATE_JAN, DEPT_MIIT, TEXT_AI) }

InitRaw ==
    /\ InitFiles(RawPool)
    /\ Idle
    /\ now = 0
    /\ policy_in = None
    /\ result_out = None
    /\ NoAlertRun

\* line 97 when no loaded file has the column full_text: unified_df['full_text']
\* raises KeyError, which nothing catches
FullTextKeyError ==
    /\ pc = "unify"
    /\ all_dfs # <<>>
    /\ \E inference \in FormatInference :
          LET cleaned == Clean(concat(all_dfs), inference)
          IN  /\ cleaned # <<>>
              /\ ColumnAbsent(cleaned, "full_text")
              /\ unified_df' = DataFrame(cleaned)
    /\ log' = Append(log, "exception")
    /\ pc' = "raised"
    /\ UNCHANGED <<files, next_source, all_dfs, canonical_df, ai_filtered_df,
                   filtered_df, overall_max_date, analyzed_df, csv_file,
                   metadata_file, now, run, first_csv, policy_in, result_out,
                   alert_vars,
                   sched_vars>>

\* line 136 when no loaded file has the column issuing_department:
\* ai_filtered_df['issuing_department'] raises KeyError, which nothing catches
DepartmentKeyError ==
    /\ pc = "filtered"
    /\ ai_filtered_df.rows # <<>>
    /\ ColumnAbsent(ai_filtered_df.rows, "issuing_department")
    /\ log' = Append(log, "exception")
    /\ pc' = "raised"
    /\ UNCHANGED <<files, next_source, all_dfs, canonical_df, unified_df,
                   ai_filtered_df, filtered_df, overall_max_date, analyzed_df,
                   csv_file, metadata_file, now, run, first_csv, policy_in,
                   result_out, alert_vars,
                   sched_vars>>

NextRaw ==
    \/ Next
    \/ FullTextKeyError
    \/ DepartmentKeyError

SpecRaw == InitRaw /\ [][NextRaw]_vars

(***************************************************************************)
(* The alert check on a list of annotated records                          *)
(***************************************************************************)

\* The methods of PolicyAlerter are modelled as they are written.  As it
\* stands alerting.py cannot be imported: its line 10 asks email.mime.text
\* for MimeText, a name that module does not define.

\* the most records handed to one alert check
MaxPolicies == 2

\* a row as main.py leaves it in all_policies_analyzed.csv
AnnotatedRecord(row) ==
    Annotate(row @@ [unified_department |->
                        standardize_department(row.issuing_department)], 0)

NOT_ALLOWED == <<19981, 24471>>    \* 不得

\* The records of an alert check: they score 9.5, 8.0, 9.0 and 9.0; the
\* second and the fourth touch the domain 算法透明度, the others no domain.
AlertPool ==
    { AnnotatedRecord(Row(TITLE_OTHER, Url(1), DATE_JUN, DEPT_CAC,
                          <<31105, 27490, 20005, 31105>>)),    \* 禁止严禁
      AnnotatedRecord(Row(TITLE_OTHER, Url(2), DATE_JAN, DEPT_MIIT,
                          NOT_ALLOWED \o <<31639, 27861>>)),    \* 不得算法
      AnnotatedRecord(Row(TITLE_OTHER, Url(3), DATE_JAN, DEPT_CAC,
                          <<31105, 27490>>)),    \* 禁止
      AnnotatedRecord(Row(TITLE_OTHER, Url(4), DATE_JAN, DEPT_MIIT,
                          <<31105, 27490, 31639, 27861>>)) }    \* 禁止算法

\* the values of alert_threshold: 8.0, the default, and 9.0
Thresholds == {<<8, 1>>, <<9, 1>>}

\* the values of departments_to_monitor: no department, 国家网信办, and
\* 国家互联网信息办公室
DepartmentLists == {<<>>, <<DEPT_CAC>>, <<CAC_FULL>>}

\* the values of domains_to_monitor: no domain, or 算法透明度
DomainLists == {<<>>, <<"algorithm_transparency">>}

InitAlert ==
    /\ files = [s \in Sources |-> [status |-> "missing", rows |-> <<>>]]
    /\ Idle
    /\ now = 0
    /\ policy_in = None
    /\ result_out = None
    /\ policies \in SeqsUpTo(AlertPool, MaxPolicies)
    /\ config \in [alert_threshold : Thresholds,
                   domains_to_monitor : DomainLists,
                   departments_to_monitor : DepartmentLists]
    /\ alerts = None
    /\ previous_check = None
    /\ NoScheduledRun

\* a list that a call returned
Returned(list) == [list |-> list]

\* alerter.check_high_risk_policies(policies)
CheckHighRiskPolicies ==
    /\ alerts = None
    /\ alerts' = Returned(check_high_risk_policies(policies, config, now))
    /\ UNCHANGED <<files, pipeline_vars, now, run, first_csv, policy_in, result_out,
                   policies, config, previous_check,
                   sched_vars>>

\* config.update_config({"alert_threshold": threshold}) between two checks,
\* while time may pass
UpdateConfig ==
    /\ alerts # None
    /\ previous_check = None
    /\ \E threshold \in Thresholds \ {config.alert_threshold} :
          config' = [config EXCEPT !.alert_threshold = threshold]
    /\ \E later \in now..Min(now + 1, MaxClock) : now' = later
    /\ previous_check' = [alert_threshold |-> config.alert_threshold,
                          alerts |-> alerts.list]
    /\ alerts' = None
    /\ UNCHANGED <<files, pipeline_vars, run, first_csv, policy_in, result_out,
                   policies,
                   sched_vars>>

NextAlert ==
    \/ CheckHighRiskPolicies
    \/ UpdateConfig

SpecAlert == InitAlert /\ [][NextAlert]_vars

(***************************************************************************)
(* The scoring and labelling functions called on one record                *)
(***************************************************************************)

\* the most times a text repeats one phrase
MaxRepeat == 6

RECURSIVE Repeat(_, _)
Repeat(phrase, n) == IF n = 0 THEN <<>> ELSE phrase \o Repeat(phrase, n - 1)

STRICTLY_BANNED == <<20005, 31105>>    \* 严禁

ENCOURAGED == <<40723, 21169>>    \* 鼓励

RECOMMENDED == <<25512, 33616>>    \* 推荐

LAW == <<27861, 24459>>    \* 法律

MEASURES == <<21150, 27861>>    \* 办法

FINE == <<32602, 27454>>    \* 罚款

AT_ONCE == <<31435, 21363>>    \* 立即

BY_MARCH == <<50, 48, 50, 52, 24180, 51, 26376>>    \* 2024年3月

Record(title, full_text, issuing_department) ==
    Row(title, Url(1), DATE_JAN, issuing_department, full_text)

\* texts that repeat 严禁 and 鼓励, each up to MaxRepeat times, with or without 推荐
ScoreInputs ==
    {Record(<<>>,
            Repeat(STRICTLY_BANNED, a) \o Repeat(ENCOURAGED, b) \o Repeat(RECOMMENDED, c),
            DEPT_CAC) :
        a \in 0..MaxRepeat, b \in 0..MaxRepeat, c \in 0..1}

\* 人工智能, 算法推荐, AIGC, ai, 智能, 某
AiPhrases ==
    { TEXT_AI, <<31639, 27861, 25512, 33616>>, <<65, 73, 71, 67>>, <<97, 105>>,
      <<26234, 33021>>, TITLE_OTHER }

\* titles: none, AI, 人工智能
AiInputs ==
    {Record(title, Join(phrases), DEPT_CAC) :
        title \in {<<>>, <<65, 73>>, TEXT_AI}, phrases \in SeqsUpTo(AiPhrases, 2)}

\* 法律, 办法, 管理办法, 标准, 指南, 意见, 某
LevelPhrases ==
    { LAW, MEASURES, <<31649, 29702>> \o MEASURES, <<26631, 20934>>, <<25351, 21335>>,
      <<24847, 35265>>, TITLE_OTHER }

LevelInputs ==
    {Record(title, Join(phrases), DEPT_CAC) :
        title \in {<<>>, MEASURES, LAW}, phrases \in SeqsUpTo(LevelPhrases, 2)}

\* 工业和信息化部, 网信办, 国家互联网信息办公室, 市场监督管理总局,
\* 全国信息安全标准化技术委员会, 科技司, 某
DepartmentPhrases ==
    { MIIT, CAC_SHORT, CAC_FULL, SAMR, TC260, <<31185, 25216, 21496>>, TITLE_OTHER }

DepartmentInputs ==
    {Record(TITLE_OTHER, TEXT_AI, Join(phrases)) :
        phrases \in SeqsUpTo(DepartmentPhrases, 2)}

\* 严禁 followed by any of 罚款, 2024年3月 and 立即, under the titles 某, 办法 and 法律
RiskInputs ==
    {Record(title, STRICTLY_BANNED \o penalty \o deadline \o urgency, DEPT_CAC) :
        title \in {TITLE_OTHER, MEASURES, LAW},
        penalty \in {<<>>, FINE}, deadline \in {<<>>, BY_MARCH},
        urgency \in {<<>>, AT_ONCE}}

\* the default threshold of generate_risk_alerts and the one its caller passes
RiskThresholds == {<<8, 1>>, <<7, 1>>}

InitCalls ==
    /\ files = [s \in Sources |-> [status |-> "missing", rows |-> <<>>]]
    /\ Idle
    /\ now = 0
    /\ policy_in \in ScoreInputs \cup AiInputs \cup LevelInputs \cup DepartmentInputs
                        \cup RiskInputs
    /\ result_out = None
    /\ NoAlertRun

\* calculate_ai_score(row)
CallCalculateAiScore ==
    /\ result_out = None
    /\ result_out' = [call |-> "calculate_ai_score",
                      score |-> calculate_ai_score(policy_in)]
    /\ UNCHANGED <<files, pipeline_vars, now, run, first_csv, policy_in, alert_vars,
                   sched_vars>>

\* analyzer.determine_enforcement_level(text, title)
CallDetermineEnforcementLevel ==
    /\ result_out = None
    /\ result_out' = [call |-> "determine_enforcement_level",
                      level |-> determine_enforcement_level(policy_in.full_text,
                                                            policy_in.title)]
    /\ UNCHANGED <<files, pipeline_vars, now, run, first_csv, policy_in, alert_vars,
                   sched_vars>>

\* standardize_department(name)
CallStandardizeDepartment ==
    /\ result_out = None
    /\ result_out' = [call |-> "standardize_department",
                      name |-> standardize_department(policy_in.issuing_department)]
    /\ UNCHANGED <<files, pipeline_vars, now, run, first_csv, policy_in, alert_vars,
                   sched_vars>>

\* trend_analyzer.generate_risk_alerts([policy], threshold)
CallGenerateRiskAlerts ==
    /\ result_out = None
    /\ \E threshold \in RiskThresholds :
          result_out' = [call |-> "generate_risk_alerts",
                         threshold |-> threshold,
                         alerts |-> generate_risk_alerts(<<policy_in>>, threshold, now)]
    /\ UNCHANGED <<files, pipeline_vars, now, run, first_csv, policy_in, alert_vars,
                   sched_vars>>

NextCalls ==
    \/ CallCalculateRegulatoryScore
    \/ CallAnalyzePolicy
    \/ CallCalculateAiScore
    \/ CallDetermineEnforcementLevel
    \/ CallStandardizeDepartment
    \/ CallGenerateRiskAlerts

SpecCalls == InitCalls /\ [][NextCalls]_vars

(***************************************************************************)
(* The temporal trend: analyze_temporal_trends and the dashboard's chart  *)
(***************************************************************************)

\* the sum of a list of fractions
RECURSIVE RatSum(_)
RatSum(scores) ==
    IF scores = <<>> THEN <<0, 1>>
    ELSE LET rest == RatSum(Tail(scores))
         IN  <<scores[1][1] * rest[2] + rest[1] * scores[1][2], scores[1][2] * rest[2]>>

\* np.mean / the 'mean' of agg: NaN for no value
Mean(scores) ==
    IF scores = <<>> THEN NaN
    ELSE LET total == RatSum(scores) IN <<total[1], total[2] * Len(scores)>>

RECURSIVE RatMax(_)
RatMax(scores) ==
    IF Len(scores) = 1 THEN scores[1]
    ELSE LET rest == RatMax(Tail(scores))
         IN  IF RatLess(scores[1], rest) THEN rest ELSE scores[1]

RECURSIVE RatMinimum(_)
RatMinimum(scores) ==
    IF Len(scores) = 1 THEN scores[1]
    ELSE LET rest == RatMinimum(Tail(scores))
         IN  IF RatLess(rest, scores[1]) THEN rest ELSE scores[1]

\* p.get('publication_date') is truthy (line 168)
HasDate(p) == p.publication_date # NaN /\ p.publication_date # <<>>

\* lines 177-179: the key '%Y-%m' of a policy, no key where strptime raises
month_key(policy) ==
    LET date_obj == strptime(policy.publication_date, "%Y-%m-%d")
    IN  IF date_obj = NaT THEN <<>> ELSE SubSeq(strftime(date_obj), 1, 7)

\* the keys of monthly_data in the order of their insertion (lines 174-185)
RECURSIVE MonthKeys(_, _)
MonthKeys(dated_policies, seen) ==
    IF dated_policies = <<>> THEN <<>>
    ELSE LET key == month_key(dated_policies[1])
         IN  IF key = <<>> \/ key \in seen
             THEN MonthKeys(Tail(dated_policies), seen)
             ELSE <<key>> \o MonthKeys(Tail(dated_policies), seen \cup {key})

\* the scores of the policies of one month (lines 190-193)
RECURSIVE MonthScores(_, _, _)
MonthScores(dated_policies, month, clock) ==
    IF dated_policies = <<>> THEN <<>>
    ELSE (IF month_key(dated_policies[1]) = month
          THEN <<analyze_policy(dated_policies[1], clock).regulatory_score>>
          ELSE <<>>)
         \o MonthScores(Tail(dated_policies), month, clock)

\* one entry of monthly_sentiment (lines 195-201)
MonthEntry(month, scores) ==
    [month |-> month,
     avg_regulatory_score |-> Mean(scores),
     policy_count |-> Len(scores),
     max_score |-> RatMax(scores),
     min_score |-> RatMinimum(scores)]

\* analyze_temporal_trends(policies): monthly_sentiment as the list of its
\* entries in insertion order
analyze_temporal_trends(policy_list, clock) ==
    LET dated_policies == SelectSeq(policy_list, HasDate)
        months == MonthKeys(dated_policies, {})
    IN  IF dated_policies = <<>> THEN [error |-> TRUE]
        ELSE [monthly_sentiment |->
                 [k \in DOMAIN months |->
                     CHOOSE e \in {MonthEntry(months[k], scores) :
                                     scores \in {MonthScores(dated_policies, months[k],
                                                             clock)}} : TRUE],
              total_analyzed_policies |-> Len(dated_policies)]

\* dashboard.py line 244: the frequencies of the three granularities
freq_map == <<"Y", "Q", "M">>

\* the number of the period of frequency freq that holds the Timestamp ts
PeriodOf(ts, freq) ==
    LET y == ts \div 10000
        m == (ts \div 100) % 100
    IN  IF freq = "Y" THEN y
        ELSE IF freq = "Q" THEN y * 4 + ((m - 1) \div 3)
        ELSE y * 12 + (m - 1)

\* load_data of dashboard.py, lines 174-175: the dates parsed one by one, the
\* rows without a date dropped
load_data(rows) ==
    LET parsed == [i \in DOMAIN rows |->
                      [rows[i] EXCEPT !.publication_date = to_datetime(@)]]
        dated(r) == r.publication_date # NaT
    IN  SelectSeq(parsed, dated)

\* the regulatory_score of the rows of df that fall in one period
RECURSIVE PeriodScores(_, _, _)
PeriodScores(df, freq, period) ==
    IF df = <<>> THEN <<>>
    ELSE (IF PeriodOf(df[1].publication_date, freq) = period
          THEN <<df[1].regulatory_score>> ELSE <<>>)
         \o PeriodScores(Tail(df), freq, period)

\* df.set_index('publication_date').resample(freq).agg({'regulatory_score':
\* 'mean', 'title': 'count'}) (lines 246-249): one row for every period from
\* that of the earliest date to that of the latest, in order; a period without
\* rows has the count 0 and the mean NaN
resample(df, freq) ==
    IF df = <<>> THEN <<>>
    ELSE LET periods == {PeriodOf(df[i].publication_date, freq) : i \in DOMAIN df}
             first == CHOOSE a \in periods : \A b \in periods : a <= b
             last == CHOOSE a \in periods : \A b \in periods : b <= a
         IN  [k \in 1..(last - first + 1) |->
                [period |-> first + k - 1,
                 regulatory_score |-> Mean(PeriodScores(df, freq, first + k - 1)),
                 policy_count |-> Len(PeriodScores(df, freq, first + k - 1))]]

DATE_2021 == <<50, 48, 50, 49, 45, 48, 53, 45, 49, 48>>    \* 2021-05-10

DATE_MAR == <<50, 48, 50, 51, 45, 48, 51, 45, 49, 53>>    \* 2023-03-15

DATE_SEP == <<50, 48, 50, 51, 45, 48, 57, 45, 51, 48>>    \* 2023-09-30

\* Annotated records of May 2021, January, March and September 2023, and one
\* whose date is 待定
TrendPool ==
    { AnnotatedRecord(Row(TITLE_OTHER, Url(1), DATE_2021, DEPT_CAC, <<31105, 27490>>)),
      AnnotatedRecord(Row(TITLE_OTHER, Url(2), DATE_JAN, DEPT_CAC, ENCOURAGED)),
      AnnotatedRecord(Row(TITLE_OTHER, Url(3), DATE_MAR, DEPT_MIIT, NOT_ALLOWED)),
      AnnotatedRecord(Row(TITLE_OTHER, Url(4), DATE_SEP, DEPT_MIIT, TEXT_AI)),
      AnnotatedRecord(Row(TITLE_OTHER, Url(5), DATE_NONE, DEPT_CAC, TEXT_AI)) }

InitTrend ==
    /\ files = [s \in Sources |-> [status |-> "missing", rows |-> <<>>]]
    /\ Idle
    /\ now = 0
    /\ policy_in = None
    /\ result_out = None
    /\ policies \in SeqsUpTo(TrendPool, MaxPolicies)
    /\ config = default_config
    /\ alerts = None
    /\ previous_check = None
    /\ NoScheduledRun

\* trend_analyzer.analyze_temporal_trends(policies)
CallAnalyzeTemporalTrends ==
    /\ result_out = None
    /\ result_out' = [call |-> "analyze_temporal_trends",
                      trends |-> analyze_temporal_trends(policies, now)]
    /\ UNCHANGED <<files, pipeline_vars, now, run, first_csv, policy_in, alert_vars,
                   sched_vars>>

\* the dashboard draws the trend of the records at the granularity chosen
DrawTrend ==
    /\ result_out = None
    /\ \E g \in DOMAIN freq_map :
          result_out' = [call |-> "resample",
                         selected_freq |-> freq_map[g],
                         monthly_trend |-> resample(load_data(policies), freq_map[g])]
    /\ UNCHANGED <<files, pipeline_vars, now, run, first_csv, policy_in, alert_vars,
                   sched_vars>>

NextTrend ==
    \/ CallAnalyzeTemporalTrends
    \/ DrawTrend

SpecTrend == InitTrend /\ [][NextTrend]_vars

(***************************************************************************)
(* alerting.py: run_alert_check and the AlertScheduler                     *)
(***************************************************************************)

\* how many times the scheduler's clock moves on
MaxTicks == 7

\* the most files alerts_output holds before another check is asked for
MaxLogFiles == 4

\* The instants, in hours, at which the scheduler's clock is read: they lie
\* half a day, 23 hours, a day, a day and a half, 167 hours, a week and more
\* than a week after the first.
ClockReadings == <<0, 12, 23, 24, 36, 167, 168, 192, 193, 216, 336>>

HoursPerDay == 24

\* timedelta.days of a difference of delta >= 0 hours: the whole days in it
Days(delta) == delta \div HoursPerDay

\* last_alert_check.json when json.load or fromisoformat cannot read it
Unreadable == [unreadable |-> TRUE]

\* should_run_check with > in place of >= (lines 331 and 333)
should_run_check_late(options, file, clock) ==
    IF file = None THEN TRUE
    ELSE IF file = Unreadable THEN TRUE
    ELSE IF options.alert_frequency = "immediate" THEN TRUE
    ELSE IF options.alert_frequency = "daily" THEN Days(clock - file.timestamp) > 1
    ELSE IF options.alert_frequency = "weekly" THEN Days(clock - file.timestamp) > 7
    ELSE FALSE

\* should_run_check (lines 312-335) when last_alert_check.json is file and
\* datetime.now() is clock
should_run_check(options, file, clock) ==
    IF file = None THEN TRUE
    ELSE IF file = Unreadable THEN TRUE
    ELSE IF options.alert_frequency = "immediate" THEN TRUE
    ELSE IF options.alert_frequency = "daily" THEN Days(clock - file.timestamp) >= 1
    ELSE IF options.alert_frequency = "weekly" THEN Days(clock - file.timestamp) >= 7
    ELSE FALSE

\* What the write of lines 339-343 does: it writes the timestamp, or open()
\* raises and the file stays as it was, or json.dump raises after open() has
\* emptied the file; the except of line 344 only logs.
WriteOutcomes == {"written", "not_opened", "emptied"}

update_last_check(file, clock, write) ==
    IF write = "written" THEN [timestamp |-> clock]
    ELSE IF write = "emptied" THEN Unreadable
    ELSE file

\* lines 367-370 with update_last_check in a finally clause
after_alert_check_finally(did, file, clock, write) ==
    update_last_check(file, clock, write)

\* lines 367-370: update_last_check is reached when run_alert_check returned
after_alert_check(did, file, clock, write) ==
    IF did.outcome = "returned" THEN update_last_check(file, clock, write)
    ELSE file

\* lines 352-360: the records of the files that exist and that read_csv reads
RECURSIVE LoadPolicies(_, _)
LoadPolicies(csv_files, fs) ==
    IF csv_files = <<>> THEN <<>>
    ELSE (IF fs[csv_files[1]].status = "ok" THEN fs[csv_files[1]].rows ELSE <<>>)
         \o LoadPolicies(Tail(csv_files), fs)

\* analyze_policy raises TypeError at len(content) (ai_analysis.py line 145)
\* when the full_text cell of the CSV was empty and is NaN
AnalysisRaises(policy_list) ==
    \E i \in DOMAIN policy_list : ~IsStr(policy_list[i].full_text)

\* send_email_alert (lines 151-190); delivers says whether the SMTP exchange
\* of lines 166-185 goes through without raising
send_email_alert(options, delivers) ==
    IF ~options.email.enabled THEN FALSE
    ELSE IF options.email.recipients = <<>> THEN FALSE
    ELSE delivers

\* send_slack_alert (lines 192-246); delivers says whether the post of lines
\* 238-239 goes through without raising
send_slack_alert(options, delivers) ==
    IF ~options.slack.enabled THEN FALSE
    ELSE IF options.slack.webhook_url = "" THEN FALSE
    ELSE delivers

\* What save_alert_log (lines 248-268) meets: both files are written, or the
\* first open() raises, or the second does.
SaveOutcomes == {"saved", "alerts_file_fails", "report_file_fails"}

\* what the run meets outside the program: the disk and the two channels
Environments == [save : SaveOutcomes, email : BOOLEAN, slack : BOOLEAN]

\* the calls of lines 291-293 made whatever the alerts are
Dispatch_always(alert_list) == <<"send_email_alert", "send_slack_alert">>

\* lines 291-293: the calls made after the log has been saved
Dispatch(alert_list) ==
    IF alert_list # <<>> THEN <<"send_email_alert", "send_slack_alert">> ELSE <<>>

\* run_alert_check from line 277 on, for the alerts of line 274: what it did,
\* in order, and what it returned
AlertRun(alert_list, options, env) ==
    IF env.save # "saved"
    THEN [outcome |-> "raised",
          events |-> <<>>,
          files_written |-> IF env.save = "report_file_fails" THEN 1 ELSE 0,
          alert_count |-> Len(alert_list),
          email_sent |-> FALSE,
          slack_sent |-> FALSE]
    ELSE [outcome |-> "returned",
          events |-> <<"save_alert_log">> \o Dispatch(alert_list),
          files_written |-> 2,
          alert_count |-> Len(alert_list),
          email_sent |-> /\ InSeq("send_email_alert", Dispatch(alert_list))
                         /\ send_email_alert(options, env.email),
          slack_sent |-> /\ InSeq("send_slack_alert", Dispatch(alert_list))
                         /\ send_slack_alert(options, env.slack)]

\* a run that raised at line 274, before anything was written
RaisedInAnalysis ==
    [outcome |-> "raised", events |-> <<>>, files_written |-> 0, alert_count |-> 0,
     email_sent |-> FALSE, slack_sent |-> FALSE]

\* a scheduled call that returned at line 351 or at line 364
Skipped(why) ==
    [outcome |-> why, events |-> <<>>, files_written |-> 0, alert_count |-> 0,
     email_sent |-> FALSE, slack_sent |-> FALSE]

\* the record of a call: what it did, when it was made, what it found in
\* last_alert_check.json, whether it wrote its timestamp there, and the
\* executed check before it
CallRecord(call, did, clock, found, recorded, previous) ==
    did @@ [call |-> call, at |-> clock, found |-> found, recorded |-> recorded,
            previous |-> previous]

\* run_alert_check(policies) (lines 270-303): every way it can go, as what it
\* met and what it did
run_alert_check(policy_list, options, clock) ==
    IF AnalysisRaises(policy_list)
    THEN {[met |-> env, did |-> RaisedInAnalysis] : env \in Environments}
    ELSE UNION {{[met |-> env, did |-> AlertRun(alert_list, options, env)] :
                    env \in Environments} :
                  alert_list \in {check_high_risk_policies(policy_list, options, clock)}}

\* 不得算法 by 工信部: scores 8.0 and touches 算法透明度
ALERTING == Row(TITLE_OTHER, Url(2), DATE_JAN, DEPT_MIIT, NOT_ALLOWED \o <<31639, 27861>>)

\* 禁止严禁 by 国家网信办: scores 9.5 and touches no monitored domain
UNMONITORED == Row(TITLE_OTHER, Url(1), DATE_JUN, DEPT_CAC, <<31105, 27490, 20005, 31105>>)

\* a row whose full_text cell is empty
BLANK == Row(TITLE_OTHER, Url(3), DATE_JAN, DEPT_CAC, NaN)

\* the three CSV files with rows in the second: the first cannot be read and
\* the third is missing
FilesWith(rows) ==
    [s \in Sources |->
       IF s = source_files[1] THEN [status |-> "unreadable", rows |-> <<>>]
       ELSE IF s = source_files[2] THEN [status |-> "ok", rows |-> rows]
       ELSE [status |-> "missing", rows |-> <<>>]]

\* both channels switched on with a recipient and a webhook
Channels(options) ==
    [options EXCEPT !.email = [enabled |-> TRUE, recipients |-> <<"ops">>],
                    !.slack = [enabled |-> TRUE, webhook_url |-> "hook"]]

\* alert_frequency as documented at line 44, and one value it does not list
Frequencies == {"daily", "weekly", "immediate", "hourly"}

\* the files and the options a scheduler runs with
Setups ==
    {[files |-> FilesWith(<<ALERTING>>),
      config |-> [default_config EXCEPT !.alert_frequency = f]] : f \in Frequencies}
    \cup {[files |-> FilesWith(rows), config |-> Channels(default_config)] :
            rows \in {<<>>, <<ALERTING>>, <<UNMONITORED>>, <<BLANK>>}}

InitScheduler ==
    /\ \E setup \in Setups : files = setup.files /\ config = setup.config
    /\ Idle
    /\ now = 0
    /\ policy_in = None
    /\ result_out = None
    /\ policies = <<>>
    /\ alerts = None
    /\ previous_check = None
    /\ NoScheduledRun

\* time passes up to the next reading of the clock; what the call at the
\* present reading returned is with its caller
TickScheduler ==
    /\ \E k \in 1..MaxTicks :
          /\ k < Len(ClockReadings)
          /\ ClockReadings[k] = now
          /\ now' = ClockReadings[k + 1]
    /\ check_result' = None
    /\ UNCHANGED <<files, pipeline_vars, run, first_csv, policy_in, result_out,
                   alert_vars, last_check_file, output_dir, last_executed>>

\* scheduler.run_scheduled_check(csv_files) (lines 347-374)
RunScheduledCheck ==
    /\ check_result = None
    /\ output_dir < MaxLogFiles
    /\ IF ~should_run_check(config, last_check_file, now)
       THEN /\ check_result' = CallRecord("run_scheduled_check", Skipped("not_due"),
                                          now, last_check_file, FALSE, last_executed)
            /\ UNCHANGED <<last_check_file, output_dir, last_executed>>
       ELSE IF LoadPolicies(source_files, files) = <<>>
       THEN /\ check_result' = CallRecord("run_scheduled_check", Skipped("no_data"),
                                          now, last_check_file, FALSE, last_executed)
            /\ UNCHANGED <<last_check_file, output_dir, last_executed>>
       ELSE \E ran \in run_alert_check(LoadPolicies(source_files, files), config, now) :
               \E write \in WriteOutcomes :
                  /\ output_dir' = output_dir + ran.did.files_written
                  /\ last_check_file' =
                        after_alert_check(ran.did, last_check_file, now, write)
                  /\ check_result' =
                        CallRecord("run_scheduled_check", ran.did, now, last_check_file,
                                   ran.did.outcome = "returned" /\ write = "written",
                                   last_executed)
                  /\ last_executed' =
                        [at |-> now,
                         recorded |-> ran.did.outcome = "returned" /\ write = "written"]
    /\ UNCHANGED <<files, pipeline_vars, now, run, first_csv, policy_in, result_out,
                   alert_vars>>

NextScheduler ==
    \/ TickScheduler
    \/ RunScheduledCheck

SpecScheduler == InitScheduler /\ [][NextScheduler]_vars

\* the settings of the two channels: switched on or off, with or without a
\* recipient and a webhook
ChannelSettings ==
    {[default_config EXCEPT !.email = e, !.slack = k] :
        e \in [enabled : BOOLEAN, recipients : {<<>>, <<"ops">>}],
        k \in [enabled : BOOLEAN, webhook_url : {"", "hook"}]}

\* main() of alerting.py about to call run_alert_check on the records loaded
InitNotify ==
    /\ files = [s \in Sources |-> [status |-> "missing", rows |-> <<>>]]
    /\ Idle
    /\ now = 0
    /\ policy_in = None
    /\ result_out = None
    /\ policies \in {<<ALERTING>>, <<UNMONITORED>>, <<UNMONITORED, ALERTING>>, <<BLANK>>}
    /\ config \in ChannelSettings
    /\ alerts = None
    /\ previous_check = None
    /\ NoScheduledRun

\* alerter.run_alert_check(all_policies) (lines 270-303)
RunAlertCheck ==
    /\ check_result = None
    /\ \E ran \in run_alert_check(policies, config, now) :
          /\ check_result' = CallRecord("run_alert_check", ran.did, now, last_check_file,
                                        FALSE, last_executed) @@ [met |-> ran.met]
          /\ output_dir' = output_dir + ran.did.files_written
    /\ UNCHANGED <<files, pipeline_vars, now, run, first_csv, policy_in, result_out,
                   alert_vars, last_check_file, last_executed>>

NextNotify == RunAlertCheck

SpecNotify == InitNotify /\ [][NextNotify]_vars

(***************************************************************************)
(* Properties                                                              *)
(***************************************************************************)

Range(seq) == {seq[i] : i \in DOMAIN seq}

KeysOf(rows) == {rows[i].core_title : i \in DOMAIN rows}

\* the rows of one DedupGroupKey
Group(rows, key) == {r \in Range(rows) : r.core_title = key}

\* the state right after the Deduplication Engine has run
Deduplicated == pc = "filter"

\* C1: after deduplication every core_title of the canonical set occurs in
\* exactly one retained record, and every retained record is a canonical one:
\* no key is lost and no key is kept twice.
C1_OneRecordPerKey ==
    Deduplicated =>
        /\ KeysOf(unified_df.rows) = KeysOf(canonical_df.rows)
        /\ Range(unified_df.rows) \subseteq Range(canonical_df.rows)
        /\ \A key \in KeysOf(canonical_df.rows) :
              Cardinality({i \in DOMAIN unified_df.rows :
                              unified_df.rows[i].core_title = key}) = 1

\* two canonical records of different titles share a key and one is retained
C1_Witness ==
    /\ Deduplicated
    /\ Len(unified_df.rows) = 1
    /\ \E a, b \in Range(canonical_df.rows) :
          a.title # b.title /\ a.core_title = b.core_title

\* C2: the retained record of a group has the latest publication_date of the
\* group and, among the group's records of that date, the greatest
\* content_length.
C2_NewestThenLongest ==
    Deduplicated =>
        \A r \in Range(unified_df.rows) :
            \A c \in Group(canonical_df.rows, r.core_title) :
                /\ c.publication_date <= r.publication_date
                /\ c.publication_date = r.publication_date
                      => c.content_length <= r.content_length

\* the record of 2023-06-01 is kept over the longer one of 2023-01-01
C2_Witness ==
    /\ Deduplicated
    /\ \E a, b \in Range(canonical_df.rows) :
          /\ a.core_title = b.core_title
          /\ a.publication_date = 20230101
          /\ b.publication_date = 20230601
          /\ a.content_length > b.content_length
          /\ unified_df.rows = <<b>>

Permuted(rows, p) == [i \in DOMAIN rows |-> rows[p[i]]]

\* the records of a group that no record of the group sorts before
Top(rows, key) ==
    {r \in Group(rows, key) : \A g \in Group(rows, key) : ~SortsBefore(g, r)}

\* the representative of a key among deduplicated rows
Representative(rows, key) == CHOOSE r \in Range(rows) : r.core_title = key

DedupKey(r) == <<r.core_title, r.publication_date, r.content_length>>

IndexSeqs(n) ==
    {y \in SeqsUpTo(1..n, n) : \A i, j \in DOMAIN y : y[i] = y[j] => i = j}

\* C4: deduplicating the canonical batch X with any sub-batch Y of it appended
\* again yields the same set of records as deduplicating X alone.
C4_RefeedIdempotent ==
    Deduplicated =>
        LET X == canonical_df.rows
        IN  \A y \in IndexSeqs(Len(X)) :
                LET Y == [i \in DOMAIN y |-> X[y[i]]]
                IN  Range(Deduplicate(X \o Y)) = Range(unified_df.rows)

\* the batch holds two different records that tie for the first place
C4_Witness ==
    /\ Deduplicated
    /\ \E key \in KeysOf(canonical_df.rows) :
          Cardinality(Top(canonical_df.rows, key)) = 2

\* C5: a second run of main() over the same source files leaves the same
\* all_policies_analyzed.csv as the first, whenever both runs wrote it.
C5_SameOutputOnRerun ==
    (run = 2 /\ pc = "done" /\ InSeq("saved", log) /\ first_csv # None)
        => csv_file = first_csv

\* the score and the text of the call that returned
ScoreOut ==
    IF result_out.call = "analyze_policy"
    THEN result_out.analysis.regulatory_score
    ELSE result_out.score

TextIn ==
    IF result_out.call = "analyze_policy"
    THEN policy_in.title \o SPACE \o policy_in.full_text
    ELSE policy_in.full_text

\* no keyword of the strictness table or of the innovation table occurs in text
NoScoringKeyword(text) ==
    /\ \A i \in DOMAIN strict_keywords : ~Contains(Lower(text), strict_keywords[i].kw)
    /\ \A i \in DOMAIN innovation_keywords :
          ~Contains(Lower(text), innovation_keywords[i].kw)

\* C6: the regulatory score of every text lies in [1.0, 10.0], and it is 5.0
\* for the empty text and for a text without any scoring keyword.
C6_ScoreBounds ==
    result_out # None =>
        /\ RatLeq(<<1, 1>>, ScoreOut)
        /\ RatLeq(ScoreOut, <<10, 1>>)
        /\ (TextIn = <<>> \/ NoScoringKeyword(TextIn)) => RatEq(ScoreOut, <<5, 1>>)

\* a text that is not empty and holds no scoring keyword has been scored
C6_Witness ==
    /\ result_out # None
    /\ result_out.call = "calculate_regulatory_score"
    /\ policy_in.full_text = TEXT_AI \o TITLE_OTHER
    /\ NoScoringKeyword(policy_in.full_text)

BAN == <<31105, 27490>>    \* 禁止

\* the title matches no scoring keyword; the body holds 禁止 once and no other
\* keyword of either scoring table
OnlyBanOnce(policy) ==
    /\ NoScoringKeyword(policy.title)
    /\ Count(Lower(policy.full_text), BAN) = 1
    /\ \A i \in DOMAIN strict_keywords :
          strict_keywords[i].kw # BAN
             => ~Contains(Lower(policy.full_text), strict_keywords[i].kw)
    /\ \A i \in DOMAIN innovation_keywords :
          ~Contains(Lower(policy.full_text), innovation_keywords[i].kw)

AnalyzedOnlyBan ==
    /\ result_out # None
    /\ result_out.call = "analyze_policy"
    /\ OnlyBanOnce(policy_in)

\* C7 as claimed: such a record receives regulatory_score 10.0.
C7_BanScoresTen == AnalyzedOnlyBan => RatEq(ScoreOut, <<10, 1>>)

\* C7 as amended: such a record receives regulatory_score 9.0, the score the
\* strictness table gives 禁止.
C7_BanScoresNine == AnalyzedOnlyBan => RatEq(ScoreOut, <<9, 1>>)

\* analyze_policy has returned for the title 某 and the body 某禁止
C7_Witness ==
    /\ AnalyzedOnlyBan
    /\ policy_in.title = TITLE_OTHER
    /\ policy_in.full_text = TITLE_OTHER \o BAN

\* ten unified records with different titles, of which the third, the sixth
\* and the tenth score above 4 (5, 6 and 5) and the others 4, 2 or 0
BatchOfTen ==
    [i \in 1..10 |->
       Row([j \in 1..i |-> TITLE_OTHER[1]], Url(i % 10), DATE_JAN, DEPT_CAC,
           CASE i = 3 -> TEXT_AI
             [] i = 6 -> <<22823, 27169, 22411, 22823, 27169, 22411>>    \* 大模型大模型
             [] i = 10 -> TEXT_AI_BAN
             [] i \in {1, 4, 7} -> TEXT_ALGO
             [] i \in {2, 8} -> <<26234, 33021>>    \* 智能
             [] OTHER -> <<>>)]

\* C8: the records passed on are exactly the deduplicated records whose
\* ai_score is greater than 4, each once: a score of 4 is dropped, a score of
\* 5 is kept, and of ten records of which three score above 4 those three
\* are kept.
C8_KeepsScoresAboveFour ==
    pc = "filtered" =>
        /\ \A r \in Range(unified_df.rows) :
              r \in Range(ai_filtered_df.rows) <=> r.ai_score >= 5
        /\ Range(ai_filtered_df.rows) \subseteq Range(unified_df.rows)
        /\ Len(ai_filtered_df.rows) = Cardinality(Range(ai_filtered_df.rows))
        /\ LET kept == AiFilter(AddAiScore(BatchOfTen))
           IN  /\ Len(kept) = 3
               /\ {r.title : r \in Range(kept)} = {BatchOfTen[i].title : i \in {3, 6, 10}}

\* a record that scores 4 has been dropped and one that scores 5 kept
C8_Witness ==
    /\ pc = "filtered"
    /\ \E r \in Range(unified_df.rows) :
          r.ai_score = 4 /\ r \notin Range(ai_filtered_df.rows)
    /\ \E r \in Range(unified_df.rows) :
          r.ai_score = 5 /\ r \in Range(ai_filtered_df.rows)

\* no source file was loaded, or the relevance filter left no record
NothingToAnalyze ==
    \/ pc \notin {"load", "unify"} /\ all_dfs = <<>>
    \/ ai_filtered_df # None /\ ai_filtered_df.rows = <<>>

\* C9: a run in which no source file loads, or in which the relevance filter
\* leaves no record, ends with the no-data result: unify_data returns
\* (None, None), analyze_data returns None, neither file is written, and main
\* reports that there was no data to analyze, not that it finished.
C9_NoDataResult ==
    /\ (NothingToAnalyze /\ pc \in {"analyze", "report", "done"})
          => filtered_df = None /\ overall_max_date = None
    /\ (NothingToAnalyze /\ pc \in {"report", "done"}) => analyzed_df = None
    /\ NothingToAnalyze => csv_file = None /\ metadata_file = None
    /\ (NothingToAnalyze /\ pc = "done")
          => log[Len(log)] = "no_data" /\ ~InSeq("finished", log)
    /\ NothingToAnalyze => pc # "raised" /\ pc # "save"

\* a run whose relevance filter left no record has ended
C9_Witness ==
    /\ pc = "done"
    /\ ai_filtered_df # None
    /\ ai_filtered_df.rows = <<>>
    /\ log = <<"halt_no_ai", "no_data">>

\* C10: when main() has ended, either both files were written and the run is
\* reported as finished, or neither was written and it is not.
C10_NoPartialSuccess ==
    pc \in {"done", "raised"} =>
        \/ /\ csv_file # None
           /\ metadata_file # None
           /\ log[Len(log)] = "finished"
        \/ /\ csv_file = None
           /\ metadata_file = None
           /\ log[Len(log)] # "finished"

\* the frames of the source files that load, in the order of source_files
RECURSIVE LoadedFrom(_)
LoadedFrom(i) ==
    IF i > Len(source_files) THEN <<>>
    ELSE (IF files[source_files[i]].status = "ok"
          THEN <<read_csv(source_files[i], files[source_files[i]].rows)>>
          ELSE <<>>)
         \o LoadedFrom(i + 1)

\* the loading loop has ended and at least one source file has loaded
SomeSourceLoaded ==
    /\ pc # "load"
    /\ \E s \in Sources : files[s].status = "ok"

\* what is true of the loading loop alone: the frames are those of the files
\* that loaded, and the canonical set is built from their rows
LoadedOnlyFromReadableFiles ==
    SomeSourceLoaded =>
        /\ all_dfs = LoadedFrom(1)
        /\ canonical_df # None =>
              \E inference \in FormatInference :
                  canonical_df.rows
                      = AddDedupColumns(Clean(concat(LoadedFrom(1)), inference))

\* C11: whichever source files fail to load, as long as one loads the run
\* goes on with exactly the rows of the files that loaded, and no exception
\* reaches the caller of unify_data.
C11_LoadFailureIsolated ==
    /\ LoadedOnlyFromReadableFiles
    /\ SomeSourceLoaded => pc # "raised"

\* the rows as they were read from the source files
RawRows == Flatten(all_dfs)

\* C12: every record of the canonical set comes from a row whose
\* publication_date text is written as year-month-day; a date written in any
\* other form is dropped, not parsed in some other way.
C12_OnlyExactFormatKept ==
    canonical_df # None =>
        \A r \in Range(canonical_df.rows) :
            \E raw \in Range(RawRows) :
                /\ raw.title = r.title
                /\ raw.url = r.url
                /\ IsoShape(raw.publication_date)

\* the rows of the frame that pd.concat built (line 73) from which the
\* canonical record r was made
RowsBehind(r) ==
    {raw \in Range(concat(all_dfs)) : raw.title = r.title /\ raw.url = r.url}

\* C13: every canonical record has a title, a department and a text that are
\* not missing; a missing department or text has become the empty string, and
\* a record whose text was missing has content_length 0.
C13_NullsBecomeEmpty ==
    canonical_df # None =>
        \A r \in Range(canonical_df.rows) :
            /\ r.title # NaN
            /\ r.issuing_department # NaN
            /\ r.full_text # NaN
            /\ \A raw \in RowsBehind(r) :
                  /\ raw.issuing_department = NaN => r.issuing_department = <<>>
                  /\ raw.full_text = NaN
                        => r.full_text = <<>> /\ r.content_length = 0

\* the record of the pool with url u<n>
PoolRecord(n) == CHOOSE p \in AlertPool : p.url = Url(n)

\* how many members of a list have the url u
CountUrl(list, u) == Cardinality({i \in DOMAIN list : list[i].url = u})

\* the records of policies whose regulatory_score is at least the threshold
AtOrAbove(threshold) ==
    LET high(p) == RatLeq(threshold, p.regulatory_score)
    IN  SelectSeq(policies, high)

NoAllowLists ==
    /\ config.departments_to_monitor = <<>>
    /\ config.domains_to_monitor = <<>>

\* C14: with both allow-lists empty, the alerts are those of the records whose
\* regulatory_score is at least the threshold, one alert for each such record
\* of the list and none for any other; and the check at threshold 9.0 of
\* records that score 9.5, 8.0 and 9.0 returns two alerts.
C14_AlertsAtOrAboveThreshold ==
    (alerts # None /\ NoAllowLists) =>
        /\ Len(alerts.list) = Len(AtOrAbove(config.alert_threshold))
        /\ \A p \in AlertPool :
              CountUrl(alerts.list, p.url)
                  = CountUrl(AtOrAbove(config.alert_threshold), p.url)
        /\ \A i \in DOMAIN alerts.list :
              RatLeq(config.alert_threshold, alerts.list[i].regulatory_score)
        /\ LET found == check_high_risk_policies(
                            <<PoolRecord(1), PoolRecord(2), PoolRecord(3)>>,
                            [alert_threshold |-> <<9, 1>>,
                             domains_to_monitor |-> <<>>,
                             departments_to_monitor |-> <<>>], now)
           IN  /\ Len(found) = 2
               /\ RatEq(found[1].regulatory_score, <<19, 2>>)
               /\ RatEq(found[2].regulatory_score, <<9, 1>>)

\* at threshold 9.0 the record that scores 9.0 is alerted and the one that
\* scores 8.0 is not
C14_Witness ==
    /\ alerts # None
    /\ NoAllowLists
    /\ config.alert_threshold = <<9, 1>>
    /\ policies = <<PoolRecord(2), PoolRecord(3)>>
    /\ RatEq(PoolRecord(2).regulatory_score, <<8, 1>>)
    /\ RatEq(PoolRecord(3).regulatory_score, <<9, 1>>)
    /\ Len(alerts.list) = 1
    /\ alerts.list[1].url = Url(3)

\* the records of policies from which the alert was made
RecordsBehind(alert) == {p \in Range(policies) : p.url = alert.url}

\* the record touches a domain of the list
TouchesDomain(p, domain_list) ==
    \E i \in DOMAIN p.identified_domains : InSeq(p.identified_domains[i], domain_list)

\* C15: with a department allow-list that is not empty, a record is alerted
\* only if its unified_department is a member of the list; with an empty
\* list the department of a record does not matter.
C15_UnifiedDepartmentAllowed ==
    alerts # None =>
        /\ config.departments_to_monitor # <<>> =>
              \A i \in DOMAIN alerts.list :
                  \A p \in RecordsBehind(alerts.list[i]) :
                      InSeq(p.unified_department, config.departments_to_monitor)
        /\ config.departments_to_monitor = <<>> =>
              \A p \in Range(AtOrAbove(config.alert_threshold)) :
                  (config.domains_to_monitor = <<>>
                      \/ TouchesDomain(p, config.domains_to_monitor))
                     => CountUrl(alerts.list, p.url) >= 1

\* what the check does with the department allow-list: it compares the list
\* with issuing_department, the name as the source wrote it
IssuingDepartmentAllowed ==
    (alerts # None /\ config.departments_to_monitor # <<>>) =>
        \A i \in DOMAIN alerts.list :
            \A p \in RecordsBehind(alerts.list[i]) :
                InSeq(p.issuing_department, config.departments_to_monitor)

\* C16: with a domain allow-list that is not empty, a record is alerted only
\* if one of its identified_domains is a member of the list, so a record
\* without any domain is never alerted; with an empty list the domains of a
\* record do not matter.
C16_DomainAllowed ==
    alerts # None =>
        /\ config.domains_to_monitor # <<>> =>
              \A i \in DOMAIN alerts.list :
                  \A p \in RecordsBehind(alerts.list[i]) :
                      /\ p.identified_domains # <<>>
                      /\ TouchesDomain(p, config.domains_to_monitor)
        /\ config.domains_to_monitor = <<>> =>
              \A p \in Range(AtOrAbove(config.alert_threshold)) :
                  (config.departments_to_monitor = <<>>
                      \/ InSeq(p.issuing_department, config.departments_to_monitor))
                     => CountUrl(alerts.list, p.url) = CountUrl(policies, p.url)

\* of two records that score 9.0, the one that touches 算法透明度 is alerted
\* and the one without any domain is not
C16_Witness ==
    /\ alerts # None
    /\ config.domains_to_monitor = <<"algorithm_transparency">>
    /\ config.departments_to_monitor = <<>>
    /\ config.alert_threshold = <<9, 1>>
    /\ policies = <<PoolRecord(3), PoolRecord(4)>>
    /\ PoolRecord(3).identified_domains = <<>>
    /\ PoolRecord(4).identified_domains = <<"algorithm_transparency">>
    /\ Len(alerts.list) = 1
    /\ alerts.list[1].url = Url(4)

UrlsOf(list) == [i \in DOMAIN list |-> list[i].url]

\* the members of a list that have the score s, in the order of the list
WithScore(list, s) ==
    LET same(x) == RatEq(x.regulatory_score, s)
    IN  SelectSeq(list, same)

\* the records of policies that a list of alerts was made from, in input order
AlertedRecords(alert_list) ==
    LET alerted(p) == CountUrl(alert_list, p.url) >= 1
    IN  SelectSeq(policies, alerted)

\* the scores never rise along the list, and the alerts of one score stand in
\* the order of their records in policies
RankedStably(alert_list) ==
    /\ \A i, j \in DOMAIN alert_list :
          i < j => RatLeq(alert_list[j].regulatory_score, alert_list[i].regulatory_score)
    /\ \A i \in DOMAIN alert_list :
          LET s == alert_list[i].regulatory_score
          IN  UrlsOf(WithScore(alert_list, s))
                  = UrlsOf(WithScore(AlertedRecords(alert_list), s))

\* C17: the alerts returned by check_high_risk_policies are ordered by
\* regulatory_score descending, alerts of equal score in the order of their
\* records in the input; so are the alerts of generate_risk_alerts before the
\* allow-lists are applied.
C17_RankedByScoreStably ==
    alerts # None =>
        /\ RankedStably(alerts.list)
        /\ RankedStably(generate_risk_alerts(policies, config.alert_threshold, now))

\* two different records of score 9.0 are alerted in the order of the input
C17_Witness ==
    /\ alerts # None
    /\ policies = <<PoolRecord(4), PoolRecord(3)>>
    /\ RatEq(PoolRecord(4).regulatory_score, PoolRecord(3).regulatory_score)
    /\ UrlsOf(alerts.list) = <<Url(4), Url(3)>>

\* an alert without the time at which it was made
Undated(alert) == [f \in DOMAIN alert \ {"alert_timestamp"} |-> alert[f]]

\* every alert of the list fewer is, as often, an alert of the list more
AlertsWithin(fewer, more) ==
    /\ {Undated(a) : a \in Range(fewer)} \subseteq {Undated(a) : a \in Range(more)}
    /\ \A p \in AlertPool : CountUrl(fewer, p.url) <= CountUrl(more, p.url)
    /\ Len(fewer) <= Len(more)

\* C18: of two checks of the same records under the same allow-lists, the one
\* with the higher threshold returns a subset of the alerts of the other, so
\* raising the threshold never adds an alert.
C18_HigherThresholdFewerAlerts ==
    (alerts # None /\ previous_check # None) =>
        /\ RatLeq(previous_check.alert_threshold, config.alert_threshold)
              => AlertsWithin(alerts.list, previous_check.alerts)
        /\ RatLeq(config.alert_threshold, previous_check.alert_threshold)
              => AlertsWithin(previous_check.alerts, alerts.list)

\* after the threshold was raised, some but not all of the alerts remain
C18_Witness ==
    /\ alerts # None
    /\ previous_check # None
    /\ RatLess(previous_check.alert_threshold, config.alert_threshold)
    /\ Len(alerts.list) >= 1
    /\ Len(alerts.list) < Len(previous_check.alerts)

\* the latest publication_date of a set of records
LatestDate(records) ==
    CHOOSE d \in {r.publication_date : r \in records} :
        \A r \in records : r.publication_date <= d

\* C19: the overall_max_date of metadata.json is the latest publication_date
\* of the canonical set, taken before deduplication and before the relevance
\* filter; no row of the analyzed table has a later date.
C19_MaxDateOfCanonicalSet ==
    /\ (overall_max_date # None /\ canonical_df # None)
          => overall_max_date.ts = LatestDate(Range(canonical_df.rows))
    /\ metadata_file # None =>
          /\ metadata_file.overall_max_date
                = strftime(LatestDate(Range(canonical_df.rows)))
          /\ \A r \in Range(csv_file.rows) :
                r.publication_date <= LatestDate(Range(canonical_df.rows))

\* metadata.json holds 2023-06-01 while every row of the analyzed table is
\* older: the record of that date was dropped by the relevance filter
C19_Witness ==
    /\ metadata_file # None
    /\ metadata_file.overall_max_date = DATE_JUN
    /\ csv_file.rows # <<>>
    /\ \A r \in Range(csv_file.rows) : r.publication_date < 20230601
    /\ \E r \in Range(unified_df.rows) :
          r.publication_date = 20230601 /\ r.ai_score <= 4

\* the loaded files hold rows, and none of them has the column col
LoadedWithout(col) ==
    /\ pc # "load"
    /\ RawRows # <<>>
    /\ ColumnAbsent(RawRows, col)

\* C20: when no loaded file has one of the optional columns
\* issuing_department, full_text and url, unify_data still returns, with its
\* table or with the no-data result, and raises no exception.
C20_MissingColumnTolerated ==
    \A col \in OptionalColumns : LoadedWithout(col) => pc # "raised"

\* what is true of the column url alone: main.py never reads it
MissingUrlTolerated ==
    (LoadedWithout("url") /\ ~LoadedWithout("full_text")
        /\ ~LoadedWithout("issuing_department")) => pc # "raised"

RatAdd(p, q) ==
    IF p[2] = q[2] THEN <<p[1] + q[1], p[2]>>
    ELSE <<p[1] * q[2] + q[1] * p[2], p[2] * q[2]>>

RatMin(p, q) == IF RatLess(q, p) THEN q ELSE p

\* the sum, over the keywords of a table that occur in text, of the weight
\* min(per_match * count, cap), multiplied by the keyword's score if scored
RECURSIVE WeightSum(_, _, _, _, _)
WeightSum(text, table, per_match, cap, scored) ==
    IF table = <<>> THEN <<0, 1>>
    ELSE LET count == Count(text, table[1].kw)
             w == RatMin(<<count * per_match[1], per_match[2]>>, cap)
             term == IF count = 0 THEN <<0, 1>>
                     ELSE IF scored THEN <<table[1].score * w[1], w[2]>>
                     ELSE w
         IN  RatAdd(term, WeightSum(text, Tail(table), per_match, cap, scored))

\* sum(score_k * w_k) / sum(w_k) with w_k = min(2 * count_k, 10) for a
\* strictness keyword and min(1.5 * count_k, 8) for an innovation keyword
WeightedMean(text) ==
    LET t == Lower(text)
        num == RatAdd(WeightSum(t, strict_keywords, <<2, 1>>, <<10, 1>>, TRUE),
                      WeightSum(t, innovation_keywords, <<3, 2>>, <<8, 1>>, TRUE))
        den == RatAdd(WeightSum(t, strict_keywords, <<2, 1>>, <<10, 1>>, FALSE),
                      WeightSum(t, innovation_keywords, <<3, 2>>, <<8, 1>>, FALSE))
    IN  <<num[1] * den[2], num[2] * den[1]>>

Clamped(score) ==
    IF RatLess(score, <<1, 1>>) THEN <<1, 1>>
    ELSE IF RatLess(<<10, 1>>, score) THEN <<10, 1>>
    ELSE score

Scored ==
    /\ result_out # None
    /\ result_out.call \in {"calculate_regulatory_score", "analyze_policy"}

\* C21: when at least one keyword matches, the regulatory score is the weighted
\* mean sum(score_k * w_k) / sum(w_k), with w_k = min(2 * count_k, 10) for a
\* strictness keyword and min(1.5 * count_k, 8) for an innovation keyword,
\* clamped to [1.0, 10.0].
C21_WeightedMeanWithCaps ==
    (Scored /\ ~NoScoringKeyword(TextIn))
        => RatEq(ScoreOut, Clamped(WeightedMean(TextIn)))

\* a text with 严禁 six times and 鼓励 six times, where both caps bind, has
\* been scored (10 * 10 + 1 * 8) / 18 = 6
C21_Witness ==
    /\ result_out # None
    /\ result_out.call = "calculate_regulatory_score"
    /\ Count(policy_in.full_text, STRICTLY_BANNED) = 6
    /\ Count(policy_in.full_text, ENCOURAGED) = 6
    /\ Count(policy_in.full_text, RECOMMENDED) = 0
    /\ RatEq(result_out.score, <<6, 1>>)

\* the lower-cased 'title + space + body' of the record handed to the call
ContentIn == Lower(policy_in.title \o SPACE \o policy_in.full_text)

\* the occurrences in ContentIn of the AI keywords of each tier: 3 for 人工智能,
\* 大模型, 生成式 and AIGC, 2 for 算法, 智能, 深度合成, 机器学习 and 深度学习, 1 for
\* AI, 自然语言处理 and 算法推荐; each keyword is counted on its own
TieredCount ==
    3 * ( Count(ContentIn, <<20154, 24037, 26234, 33021>>)
          + Count(ContentIn, <<22823, 27169, 22411>>)
          + Count(ContentIn, <<29983, 25104, 24335>>)
          + Count(ContentIn, <<97, 105, 103, 99>>) )
    + 2 * ( Count(ContentIn, <<31639, 27861>>)
            + Count(ContentIn, <<26234, 33021>>)
            + Count(ContentIn, <<28145, 24230, 21512, 25104>>)
            + Count(ContentIn, <<26426, 22120, 23398, 20064>>)
            + Count(ContentIn, <<28145, 24230, 23398, 20064>>) )
    + ( Count(ContentIn, <<97, 105>>)
        + Count(ContentIn, <<33258, 28982, 35821, 35328, 22788, 29702>>)
        + Count(ContentIn, <<31639, 27861, 25512, 33616>>) )

AiScored == result_out # None /\ result_out.call = "calculate_ai_score"

OnlyAiOnce == policy_in.title = <<>> /\ policy_in.full_text = TEXT_AI

\* C22: calculate_ai_score is the sum over the AI keywords of the occurrences
\* in the lower-cased 'title + space + body' times the tier weight, every
\* keyword counted on its own: a single 人工智能 counts for 智能 too and scores 5.
C22_TieredKeywordSum ==
    AiScored =>
        /\ result_out.score = TieredCount
        /\ OnlyAiOnce => result_out.score = 5

\* the record without title whose body is 人工智能 has been scored
C22_Witness == AiScored /\ OnlyAiOnce

\* the keyword-match sum of a list of keywords over text
RECURSIVE MatchSum(_, _)
MatchSum(text, keywords) ==
    IF keywords = <<>> THEN 0
    ELSE Count(text, keywords[1]) + MatchSum(text, Tail(keywords))

\* the sums of the four categories, in the order of their declaration
CategorySums ==
    [i \in 1..4 |-> MatchSum(ContentIn, enforcement_levels[i].keywords)]

Categories == <<"law", "administrative_rule", "industry_standard", "guidance_document">>

LevelDetermined ==
    result_out # None /\ result_out.call = "determine_enforcement_level"

\* C23: determine_enforcement_level returns exactly one of the four categories:
\* the one with the highest keyword-match sum over title and body, the
\* earliest declared among those tied, and 指导性文件 when every sum is zero.
C23_HighestSumEarliestDeclared ==
    LevelDetermined =>
        /\ \E i \in 1..4 : result_out.level = Categories[i]
        /\ IF \A i \in 1..4 : CategorySums[i] = 0
           THEN result_out.level = "guidance_document"
           ELSE \E i \in 1..4 :
                   /\ result_out.level = Categories[i]
                   /\ \A j \in 1..4 : CategorySums[j] <= CategorySums[i]
                   /\ \A j \in 1..(i - 1) : CategorySums[j] < CategorySums[i]

\* the level of a record without title whose body is 办法法律 has been
\* determined: 行政规章 and 法律法规 are tied at 1
C23_Witness ==
    /\ LevelDetermined
    /\ policy_in.title = <<>>
    /\ policy_in.full_text = MEASURES \o LAW
    /\ CategorySums[1] = 1
    /\ CategorySums[2] = 1
    /\ result_out.level = "law"

Standardized == result_out # None /\ result_out.call = "standardize_department"

\* the rules in their order, with the names written out
RuleOrder(name) ==
    IF Contains(name, <<24037, 19994, 21644, 20449, 24687, 21270, 37096>>)
    THEN <<20013, 21326, 20154, 27665, 20849, 21644, 22269, 24037, 19994, 21644, 20449,
           24687, 21270, 37096>>
    ELSE IF \/ Contains(name, <<32593, 20449, 21150>>)
            \/ Contains(name, <<22269, 23478, 20114, 32852, 32593, 20449, 24687, 21150,
                                 20844, 23460>>)
    THEN <<22269, 23478, 20114, 32852, 32593, 20449, 24687, 21150, 20844, 23460>>
    ELSE IF Contains(name, <<24066, 22330, 30417, 30563, 31649, 29702, 24635, 23616>>)
    THEN <<22269, 23478, 24066, 22330, 30417, 30563, 31649, 29702, 24635, 23616>>
    ELSE IF Contains(name, <<20840, 22269, 20449, 24687, 23433, 20840, 26631, 20934,
                              21270, 25216, 26415, 22996, 21592, 20250>>)
    THEN <<20840, 22269, 20449, 24687, 23433, 20840, 26631, 20934, 21270, 25216, 26415,
           22996, 21592, 20250>>
    ELSE name

BothMinistryAndCac == policy_in.issuing_department = CAC_SHORT \o MIIT

\* C24: standardize_department tries 工业和信息化部, then 网信办 or
\* 国家互联网信息办公室, then 市场监督管理总局, then 全国信息安全标准化技术委员会; the
\* first rule that matches decides (a name with both 工业和信息化部 and 网信办
\* becomes 中华人民共和国工业和信息化部), and a name no rule matches is unchanged.
C24_FirstRuleWins ==
    Standardized =>
        /\ result_out.name = RuleOrder(policy_in.issuing_department)
        /\ BothMinistryAndCac => result_out.name = MIIT_FULL

\* the name 网信办工业和信息化部 has been standardized
C24_Witness == Standardized /\ BothMinistryAndCac

RiskAlerted ==
    /\ result_out # None
    /\ result_out.call = "generate_risk_alerts"
    /\ result_out.alerts # <<>>

\* the four labels whose conditions hold for an analysis, in the fixed order
LabelsThatHold(analysis) ==
    LET labels == <<"penalty_clause", "deadline", "urgency", "high_enforcement">>
        holds(label) ==
            \/ label = "penalty_clause" /\ analysis.has_penalties
            \/ label = "deadline" /\ analysis.has_deadlines
            \/ label = "urgency" /\ analysis.urgency_indicators > 0
            \/ /\ label = "high_enforcement"
               /\ analysis.enforcement_level \in {"law", "administrative_rule"}
    IN  SelectSeq(labels, holds)

\* C25: the risk_factors of every alert is the subsequence of [penalty clause,
\* deadline, urgency signal, high enforcement tier] whose conditions hold for
\* the record's analysis; the labels are independent and their order is fixed.
C25_RiskFactorsInFixedOrder ==
    RiskAlerted =>
        \A i \in DOMAIN result_out.alerts :
            result_out.alerts[i].risk_factors
                = LabelsThatHold(analyze_policy(policy_in, now))

\* an alert carries the second and the fourth label without the first and the
\* third: its record has a deadline and the title 办法, no penalty and no urgency
C25_Witness ==
    /\ RiskAlerted
    /\ policy_in.title = MEASURES
    /\ policy_in.full_text = STRICTLY_BANNED \o BY_MARCH
    /\ result_out.alerts[1].risk_factors = <<"deadline", "high_enforcement">>

TrendsAnalyzed ==
    /\ result_out # None
    /\ result_out.call = "analyze_temporal_trends"
    /\ "monthly_sentiment" \in DOMAIN result_out.trends

TrendDrawn == result_out # None /\ result_out.call = "resample"

\* the records whose date reads as year-month-day and lies in the month
RecordsOfMonth(month) ==
    {i \in DOMAIN policies :
        /\ IsoShape(policies[i].publication_date)
        /\ SubSeq(policies[i].publication_date, 1, 7) = month}

\* the records whose date lies in the period of the frequency chosen
RecordsOfPeriod(period) ==
    {i \in DOMAIN policies :
        /\ to_datetime(policies[i].publication_date) # NaT
        /\ PeriodOf(to_datetime(policies[i].publication_date),
                    result_out.selected_freq) = period}

\* monthly_sentiment has an entry for a month if and only if a record falls
\* in it, and the entry counts the records of the month
MonthlySentimentOmitsEmptyMonths ==
    TrendsAnalyzed =>
        LET entries == result_out.trends.monthly_sentiment
        IN  /\ \A k \in DOMAIN entries :
                  /\ entries[k].policy_count >= 1
                  /\ entries[k].policy_count
                        = Cardinality(RecordsOfMonth(entries[k].month))
            /\ \A i \in DOMAIN policies :
                  IsoShape(policies[i].publication_date)
                     => \E k \in DOMAIN entries :
                           i \in RecordsOfMonth(entries[k].month)

\* the chart's table has a row for a period if and only if a record falls in it
ChartOmitsEmptyPeriods ==
    TrendDrawn =>
        LET rows == result_out.monthly_trend
        IN  /\ \A k \in DOMAIN rows :
                  /\ rows[k].policy_count >= 1
                  /\ RecordsOfPeriod(rows[k].period) # {}
                  /\ rows[k].regulatory_score # NaN
            /\ \A i \in DOMAIN policies :
                  to_datetime(policies[i].publication_date) # NaT
                     => \E k \in DOMAIN rows : i \in RecordsOfPeriod(rows[k].period)

\* C26: the temporal-trend view has an entry for a period if and only if at
\* least one record falls in that period: every reported period has a count
\* of at least 1, and a period without records between two populated periods
\* is absent rather than reported with the count 0 or an empty mean.
C26_EmptyPeriodsOmitted == MonthlySentimentOmitsEmptyMonths /\ ChartOmitsEmptyPeriods

\* the chart by month of a record of January 2023 and one of March 2023 has a
\* row for February 2023 with the count 0 and no mean
FebruaryZeroFilled ==
    /\ TrendDrawn
    /\ result_out.selected_freq = "M"
    /\ Len(policies) = 2
    /\ policies[1].publication_date = DATE_JAN
    /\ policies[2].publication_date = DATE_MAR
    /\ Len(result_out.monthly_trend) = 3
    /\ result_out.monthly_trend[2].policy_count = 0
    /\ result_out.monthly_trend[2].regulatory_score = NaN

\* the rows that carry the key in a frame, none when the frame does not exist
RowsOfKey(frame, key) ==
    IF frame = None THEN {}
    ELSE {i \in DOMAIN frame.rows : frame.rows[i].core_title = key}

\* every newest and longest record of the group scores 4 or less
RepresentativeIrrelevant(key) ==
    \A t \in Top(canonical_df.rows, key) : calculate_ai_score(t) <= 4

\* C27: the relevance filter is applied only to the representative that
\* deduplication chose: when the newest and longest record of a group scores 4
\* or less, the group contributes no record to the annotated output, even when
\* another record of the group scores more than 4.
\* (stated by its contrapositive: a group with a record in any later frame has
\* a newest and longest record that scores more than 4)
C27_FilterSeesOnlyRepresentative ==
    ai_filtered_df # None =>
        \A key \in KeysOf(canonical_df.rows) :
            (\/ RowsOfKey(ai_filtered_df, key) # {}
             \/ RowsOfKey(filtered_df, key) # {}
             \/ RowsOfKey(analyzed_df, key) # {}
             \/ RowsOfKey(csv_file, key) # {})
                => ~RepresentativeIrrelevant(key)

\* the filter has run on a group whose newest record scores 4 and whose older
\* record scores 5, and nothing of the group is left
C27_Witness ==
    /\ pc = "filtered"
    /\ \E key \in KeysOf(canonical_df.rows) :
          /\ RepresentativeIrrelevant(key)
          /\ \E g \in Group(canonical_df.rows, key) : calculate_ai_score(g) > 4
          /\ \E t \in Top(canonical_df.rows, key) : calculate_ai_score(t) = 4
          /\ RowsOfKey(ai_filtered_df, key) = {}

Scheduled == check_result # None /\ check_result.call = "run_scheduled_check"

\* the scheduled call went past should_run_check
Ran == check_result.outcome # "not_due"

Readable(file) == file # None /\ file # Unreadable

\* at least n times 24 hours lie between the timestamp found and now
WholeDaysElapsed(n) == now - check_result.found.timestamp >= n * 24

\* should_run_check as claimed for the frequencies daily, weekly and immediate
DueByFrequency ==
    /\ config.alert_frequency = "daily"
          => (Ran <=> (~Readable(check_result.found) \/ WholeDaysElapsed(1)))
    /\ config.alert_frequency = "weekly"
          => (Ran <=> (~Readable(check_result.found) \/ WholeDaysElapsed(7)))
    /\ config.alert_frequency = "immediate" => Ran

\* this check and the executed check before it both recorded their timestamp
BothRecorded ==
    /\ check_result.outcome = "returned"
    /\ check_result.recorded
    /\ check_result.previous # None
    /\ check_result.previous.recorded

\* two consecutive executed checks that both recorded their timestamp are a
\* day (a week) apart
ConsecutiveChecksApart ==
    BothRecorded =>
        /\ config.alert_frequency = "daily" => now - check_result.previous.at >= 24
        /\ config.alert_frequency = "weekly" => now - check_result.previous.at >= 7 * 24

Unrecognized == config.alert_frequency \notin {"daily", "weekly", "immediate"}

\* C28: under 'daily' (resp. 'weekly') should_run_check returns true iff
\* there is no readable last-check record or at least 1 (resp. 7) whole days
\* have passed since the recorded timestamp; two consecutive executed checks
\* that both recorded their timestamp are at least 1 (resp. 7) days apart;
\* 'immediate' always runs; an unrecognized frequency never runs once a
\* last-check record exists, that is, once last_alert_check.json holds a
\* timestamp that can be read.
C28_DueByWholeDays ==
    Scheduled =>
        /\ DueByFrequency
        /\ ConsecutiveChecksApart
        /\ (Unrecognized /\ Readable(check_result.found)) => ~Ran

\* under 'weekly' a check ran 168 hours after the check before it, and both
\* recorded their timestamp
C28_Witness ==
    /\ Scheduled
    /\ config.alert_frequency = "weekly"
    /\ BothRecorded
    /\ check_result.found = [timestamp |-> 0]
    /\ check_result.previous.at = 0
    /\ now = 168

\* under 'weekly' a check was not due 167 hours after the recorded timestamp
NotDueBeforeAWeek ==
    /\ Scheduled
    /\ config.alert_frequency = "weekly"
    /\ check_result.found = [timestamp |-> 0]
    /\ now = 167
    /\ ~Ran

\* C29: run_scheduled_check updates the last-check record only after
\* run_alert_check has returned: when the check is not due, when no policy
\* data could be loaded from any CSV file, or when run_alert_check raises, the
\* last-check record is left as it was found, and in the first two cases no
\* alert log is written and no notification is sent.
C29_RecordOnlyAfterReturn ==
    Scheduled =>
        /\ check_result.outcome \in {"not_due", "no_data", "raised"}
              => last_check_file = check_result.found
        /\ last_check_file # check_result.found => check_result.outcome = "returned"
        /\ check_result.outcome \in {"not_due", "no_data"}
              => /\ check_result.files_written = 0
                 /\ check_result.events = <<>>
                 /\ ~check_result.email_sent
                 /\ ~check_result.slack_sent
        /\ check_result.outcome = "no_data" => LoadPolicies(source_files, files) = <<>>

\* a day after a recorded check, run_alert_check raised at the second file of
\* its log, and last_alert_check.json still holds the earlier timestamp
C29_Witness ==
    /\ Scheduled
    /\ check_result.outcome = "raised"
    /\ check_result.files_written = 1
    /\ check_result.found = [timestamp |-> 0]
    /\ now = 24
    /\ last_check_file = [timestamp |-> 0]

\* a check that was not due left everything as it was
SkippedWhenNotDue ==
    /\ Scheduled
    /\ check_result.outcome = "not_due"
    /\ last_check_file = [timestamp |-> 0]
    /\ now = 23

\* a check that found no policy data left everything as it was
SkippedWithoutData ==
    /\ Scheduled
    /\ check_result.outcome = "no_data"
    /\ last_check_file = None

AlertCheckRun == check_result # None /\ check_result.call = "run_alert_check"

Attempted(channel) == InSeq(channel, check_result.events)

\* C30: run_alert_check attempts the e-mail and the Slack dispatch only when
\* the filtered alert list is not empty and only after the alert log has been
\* saved: with zero alerts both email_sent and slack_sent are false and no
\* send is attempted, while the log files are still written; with alerts, a
\* channel that is disabled or whose send raises reports false without
\* aborting the other channel or the run.
C30_DispatchAfterLogOnlyWithAlerts ==
    AlertCheckRun =>
        /\ (Attempted("send_email_alert") \/ Attempted("send_slack_alert"))
              => /\ check_result.alert_count > 0
                 /\ check_result.events[1] = "save_alert_log"
                 /\ check_result.files_written = 2
        /\ (check_result.outcome = "returned" /\ check_result.alert_count = 0)
              => /\ ~check_result.email_sent
                 /\ ~check_result.slack_sent
                 /\ check_result.events = <<"save_alert_log">>
                 /\ check_result.files_written = 2
        /\ (check_result.met.save = "saved" /\ check_result.alert_count > 0)
              => /\ check_result.outcome = "returned"
                 /\ check_result.events
                       = <<"save_alert_log", "send_email_alert", "send_slack_alert">>
                 /\ (~config.email.enabled \/ ~check_result.met.email)
                       => ~check_result.email_sent
                 /\ (~config.slack.enabled \/ ~check_result.met.slack)
                       => ~check_result.slack_sent
                 /\ check_result.email_sent
                       <=> /\ config.email.enabled
                           /\ config.email.recipients # <<>>
                           /\ check_result.met.email
                 /\ check_result.slack_sent
                       <=> /\ config.slack.enabled
                           /\ config.slack.webhook_url # ""
                           /\ check_result.met.slack

\* with one alert, the e-mail send raised and reported false, and the Slack
\* message was sent all the same
C30_Witness ==
    /\ AlertCheckRun
    /\ check_result.outcome = "returned"
    /\ check_result.alert_count = 1
    /\ config.email.enabled
    /\ config.email.recipients # <<>>
    /\ ~check_result.met.email
    /\ ~check_result.email_sent
    /\ check_result.slack_sent

\* with a record above the threshold that the filters drop, the log was
\* written and nothing was sent although both channels are switched on
NothingSentWithoutAlerts ==
    /\ AlertCheckRun
    /\ policies = <<UNMONITORED>>
    /\ check_result.outcome = "returned"
    /\ check_result.alert_count = 0
    /\ config.email.enabled
    /\ config.slack.enabled
    /\ check_result.files_written = 2
    /\ output_dir = 2
====
